---------------------------- MODULE Spec2Model ----------------------------
(***************************************************************************)
(* A model of DokuParserJS (src/dokuparserjs.js, the class that starts at  *)
(* line 1527): the block state machine parse(), the inline rule engine     *)
(* applyRules(), parseFootnotes(), escapeEntities(), flushBlocks() and the *)
(* namespace resolver resolveNamespace().                                  *)
(*                                                                         *)
(* Text is modelled as a sequence of tokens.  A token is a triple          *)
(* <<kind, n, esc>>: a markup delimiter ("[[", "**", "<nowiki>", ...), a   *)
(* text atom ("a", "&", ...), a piece of generated HTML ("<ul>", ...) or a      *)
(* numbered token (kind "LINK" with n = 0 is the text [LINK_0], kind       *)
(* "fnref" with n = 1 the footnote marker with number 1).  The third       *)
(* component counts how many times escapeEntities has rewritten the token. *)
(* The regular expressions of the source are modelled as matchers over     *)
(* token sequences, with the same leftmost, non-greedy semantics.          *)
(***************************************************************************)
EXTENDS Integers, Sequences, FiniteSets, TLC

VARIABLES
    this,       \* the fields of the DokuParserJS instance
    call,       \* call[c]: the local variables of activation c of parse()
    calls,      \* the number of calls of parse() made on the instance so far
    rnTarget,   \* resolveNamespace: the target argument
    rnResolved, \* resolveNamespace: the returned path
    rnPc        \* resolveNamespace: "idle" before the call, "done" after

vars == <<this, call, calls, rnTarget, rnResolved, rnPc>>

-----------------------------------------------------------------------------
(* Tokens and sequences *)

T(s) == <<s, 0, 0>>

\* const v = ...; Op(v): the value is computed once and then used by name
With(v, Op(_)) == CHOOSE r \in {Op(x) : x \in {v}} : TRUE

\* the numbered token [KIND_n], and the generated markup numbered n
N(kind, n) == <<kind, n, 0>>

Kind(tok) == tok[1]

Last(s) == s[Len(s)]

Front(s) == SubSeq(s, 1, Len(s) - 1)

\* s.substring(k) with k counted in tokens
Drop(s, k) == SubSeq(s, k + 1, Len(s))

RECURSIVE Concat(_)
Concat(ss) == IF ss = <<>> THEN <<>> ELSE Head(ss) \o Concat(Tail(ss))

\* s.startsWith(p)
StartsWith(s, p) == Len(s) >= Len(p) /\ SubSeq(s, 1, Len(p)) = p

\* s.endsWith(p)
EndsWith(s, p) == Len(s) >= Len(p) /\ SubSeq(s, Len(s) - Len(p) + 1, Len(s)) = p

\* s.includes(tok)
Includes(s, tok) == \E k \in 1..Len(s) : s[k] = tok

\* the first index >= from at which tok stands in s, 0 when there is none
RECURSIVE IndexFrom(_, _, _)
IndexFrom(s, tok, from) ==
    IF from > Len(s) THEN 0
    ELSE IF s[from] = tok THEN from
    ELSE IndexFrom(s, tok, from + 1)

\* the number of tokens of s whose kind is in kinds
RECURSIVE CountKinds(_, _)
CountKinds(s, kinds) ==
    IF s = <<>> THEN 0
    ELSE (IF Kind(Head(s)) \in kinds THEN 1 ELSE 0) + CountKinds(Tail(s), kinds)

\* s.split(sep): the pieces between the separators, empty pieces included
RECURSIVE Split(_, _)
Split(s, sep) ==
    LET k == IndexFrom(s, sep, 1)
    IN  IF k = 0 THEN <<s>>
        ELSE <<SubSeq(s, 1, k - 1)>> \o Split(Drop(s, k), sep)

\* parts.join(sep)
RECURSIVE Join(_, _)
Join(parts, sep) ==
    IF parts = <<>> THEN <<>>
    ELSE IF Len(parts) = 1 THEN parts[1]
    ELSE parts[1] \o <<sep>> \o Join(Tail(parts), sep)

\* s.replace(/tok/g, by): every occurrence of tok replaced by the sequence by
RECURSIVE ReplaceAll(_, _, _)
ReplaceAll(s, tok, by) ==
    IF s = <<>> THEN <<>>
    ELSE (IF Head(s) = tok THEN by ELSE <<Head(s)>>) \o ReplaceAll(Tail(s), tok, by)

\* s.replace('tok', by) with a string pattern: the first occurrence only
ReplaceFirst(s, tok, by) ==
    LET k == IndexFrom(s, tok, 1)
    IN  IF k = 0 THEN s
        ELSE SubSeq(s, 1, k - 1) \o by \o Drop(s, k)

-----------------------------------------------------------------------------
(* resolveNamespace *)

COLON == T(":")
DOT == T(".")

\* the text atoms that consist of characters of [a-z0-9]
AlnumKinds == {"a", "b", "p", "q", "ns1", "ns2", "ns3", "page", "parent",
               "sibling", "start", "img", "bold", "text", "Bold", "Italic",
               "10x20"}

\* resolved.replace(/[^a-z0-9:]/gi, ''): every other character is deleted
RECURSIVE StripDisallowed(_)
StripDisallowed(s) ==
    IF s = <<>> THEN <<>>
    ELSE (IF Head(s) = COLON \/ Kind(Head(s)) \in AlnumKinds THEN <<Head(s)>> ELSE <<>>)
         \o StripDisallowed(Tail(s))

\* resolved.replace(/:+/g, ':')
RECURSIVE CollapseColons(_)
CollapseColons(s) ==
    IF Len(s) < 2 THEN s
    ELSE IF s[1] = COLON /\ s[2] = COLON THEN CollapseColons(Tail(s))
    ELSE <<s[1]>> \o CollapseColons(Tail(s))

\* .replace(/^:/, '').replace(/:$/, '')
TrimColons(s) ==
    LET a == IF s # <<>> /\ Head(s) = COLON THEN Tail(s) ELSE s
    IN  IF a # <<>> /\ Last(a) = COLON THEN Front(a) ELSE a

\* while (tempTarget.startsWith('..')): <<what is left of the target, levels>>
RECURSIVE StripDotDots(_, _)
StripDotDots(t, levels) ==
    IF StartsWith(t, <<DOT, DOT>>)
    THEN IF StartsWith(t, <<DOT, DOT, COLON>>)
         THEN StripDotDots(Drop(t, 3), levels + 1)
         ELSE StripDotDots(Drop(t, 2), levels + 1)
    ELSE <<t, levels>>

\* a variant of PopLevels with "if" in the place of "while": one pop at most
PopOnce(nsParts, levels) ==
    IF levels > 0 /\ nsParts # <<>> THEN Front(nsParts) ELSE nsParts

\* while (levels > 0 && nsParts.length > 0) nsParts.pop()
PopLevels(nsParts, levels) ==
    IF levels >= Len(nsParts) THEN <<>> ELSE SubSeq(nsParts, 1, Len(nsParts) - levels)

\* currNs + (currNs ? ':' : '') + rest
PrependNs(ns, rest) == ns \o (IF ns # <<>> THEN <<COLON>> ELSE <<>>) \o rest

\* lines 1731-1748: the branch of a target that starts with '..'
resolveParent(target, currentNamespace) ==
    With(StripDotDots(target, 0), LAMBDA dd :
        PrependNs(Join(PopLevels(IF currentNamespace # <<>>
                                 THEN Split(currentNamespace, COLON) ELSE <<>>,
                                 dd[2]),
                       COLON),
                  dd[1]))

resolveNamespace(target0, currentNamespace) ==
    With(target0 # <<>> /\ Last(target0) = COLON, LAMBDA isStartPage :
    With(IF isStartPage THEN Front(target0) ELSE target0, LAMBDA target :
    With(IF StartsWith(target, <<COLON>>) THEN Drop(target, 1)
         ELSE IF StartsWith(target, <<DOT, DOT>>)
              THEN resolveParent(target, currentNamespace)
         ELSE IF StartsWith(target, <<DOT>>)
              THEN PrependNs(currentNamespace,
                             IF StartsWith(target, <<DOT, COLON>>)
                             THEN Drop(target, 2) ELSE Drop(target, 1))
         ELSE PrependNs(currentNamespace, target), LAMBDA resolved :
    With(StripDisallowed(TrimColons(CollapseColons(resolved))), LAMBDA cleaned :
        IF isStartPage THEN cleaned \o <<COLON, T("start")>> ELSE cleaned))))

-----------------------------------------------------------------------------
(* escapeEntities *)

\* the kinds of token whose text holds one of & < > " '
MetaKinds == {"&", "<", "<nowiki>", "</nowiki>", "<code>", "</code>", "<file>",
              "</file>", "<strong>", "</strong>", "<em>", "</em>", "fnref",
              "<img src=/media/", " alt=", " title=", " class=mediacenter loading=lazy>",
              "<a href=/", " class=wikilink1", " class=wikilink1 curid",
              " data-wiki-id=", ">", "</a>", "<br>", "->", "&rarr;",
              "10&times;20", "<a href=", " class=urlextern rel=nofollow title=",
              " class=mediaright loading=lazy>", " class=medialeft loading=lazy>",
              " loading=lazy>", "<html>", "</html>", "<php>", "</php>", "<b>", "</b>",
              "<pre class=code html>", "<pre class=code php>"}

\* a token that escapeEntities has rewritten holds an entity (&amp; &lt; ...),
\* hence a & that a further escapeEntities rewrites again
escapeToken(tok) ==
    IF Kind(tok) \in MetaKinds THEN <<tok[1], tok[2], tok[3] + 1>> ELSE tok

escapeEntities(content) == [k \in 1..Len(content) |-> escapeToken(content[k])]

-----------------------------------------------------------------------------
(* The inline rules of the constructor's rules array.  Each rule is        *)
(* content.replace(pattern, replace) with a global pattern: the matches    *)
(* are found left to right and do not overlap.  The rules whose pattern    *)
(* needs a character that no token of the model holds (underline,          *)
(* monospace, sub, sup, del, the e-mail and www autolinks, rss, macros,     *)
(* emoticons and the typography rules other than the two below)            *)
(* leave every modelled fragment unchanged.                                *)

SPACE == T(" ")

\* content.trim() is empty
IsBlank(s) == \A k \in 1..Len(s) : s[k] = SPACE

\* s.trim()
RECURSIVE Trim(_)
Trim(s) ==
    IF s = <<>> THEN s
    ELSE IF Head(s) = SPACE THEN Trim(Tail(s))
    ELSE IF Last(s) = SPACE THEN Trim(Front(s))
    ELSE s

\* /<nowiki>([\s\S]*?)<\/nowiki>/g with its replace callback:
\* <<the rewritten text, nowikiPlaceholders>>
RECURSIVE nowikiRule(_, _)
nowikiRule(s, nowikiPlaceholders) ==
    LET p == IndexFrom(s, T("<nowiki>"), 1)
        q == IF p = 0 THEN 0 ELSE IndexFrom(s, T("</nowiki>"), p + 1)
    IN  IF q = 0 THEN <<s, nowikiPlaceholders>>
        ELSE LET ph == N("NOWIKI", Len(nowikiPlaceholders))
                 rest == nowikiRule(Drop(s, q),
                                    Append(nowikiPlaceholders, SubSeq(s, p + 1, q - 1)))
             IN  <<SubSeq(s, 1, p - 1) \o <<ph>> \o rest[1], rest[2]>>

\* /%%([\s\S]*?)%%/g with its replace callback:
\* <<the rewritten text, percentPlaceholders>>
RECURSIVE percentRule(_, _)
percentRule(s, percentPlaceholders) ==
    LET p == IndexFrom(s, T("%%"), 1)
        q == IF p = 0 THEN 0 ELSE IndexFrom(s, T("%%"), p + 1)
    IN  IF q = 0 THEN <<s, percentPlaceholders>>
        ELSE LET ph == N("PERCENT", Len(percentPlaceholders))
                 rest == percentRule(Drop(s, q),
                                     Append(percentPlaceholders, SubSeq(s, p + 1, q - 1)))
             IN  <<SubSeq(s, 1, p - 1) \o <<ph>> \o rest[1], rest[2]>>

\* the kinds of input token whose text holds a '>'
GtKinds == {"<nowiki>", "</nowiki>", "<code>", "</code>", "<file>", "</file>", ">",
            "->"}

\* The match of /\[\[(.+?)(?:\|(.+?))?\]\]/ that starts at the [[ at p, the
\* target ending at q or later: <<end of target, start of text or 0, index of ]]>>,
\* or <<0, 0, 0>> when there is none.  The target is non-greedy: the shortest
\* one for which the rest of the pattern matches.
RECURSIVE linkMatch(_, _)
linkMatch(s, q) ==
    IF q >= Len(s) THEN <<0, 0, 0>>
    ELSE IF s[q + 1] = T("|") /\ IndexFrom(s, T("]]"), q + 3) # 0
         THEN <<q, q + 2, IndexFrom(s, T("]]"), q + 3)>>
    ELSE IF s[q + 1] = T("]]") THEN <<q, 0, q + 1>>
    ELSE linkMatch(s, q + 1)

\* The anchor the link callback stores for an internal link.  The branches
\* for e-mail, http(s) and backslash targets need characters that no token
\* of the model holds.
linkHtml(target, display, currentNamespace) ==
    With(resolveNamespace(target, currentNamespace), LAMBDA path :
        <<T("<a href=/")>> \o ReplaceAll(path, COLON, <<T("/")>>)
        \o <<IF EndsWith(path, <<COLON, T("start")>>)
              THEN T(" class=wikilink1 curid") ELSE T(" class=wikilink1"),
             T(" data-wiki-id=")>>
        \o target \o <<T(">")>> \o display \o <<T("</a>")>>)

\* the link rule: <<the rewritten text, linkPlaceholders>>
RECURSIVE linkRule(_, _, _)
linkRule(s, linkPlaceholders, currentNamespace) ==
    With(IndexFrom(s, T("[["), 1), LAMBDA p :
    With(IF p = 0 THEN <<0, 0, 0>> ELSE linkMatch(s, p + 1), LAMBDA m :
        IF m[3] = 0 THEN <<s, linkPlaceholders>>
        ELSE
    With(Trim(SubSeq(s, p + 1, m[1])), LAMBDA target :
    With(IF m[2] = 0 THEN <<>> ELSE Trim(SubSeq(s, m[2], m[3] - 1)), LAMBDA text :
    \* target.includes('>') with a wiki that interwikiMap does not hold
    With(\E k \in 1..Len(target) : Kind(target[k]) \in GtKinds, LAMBDA unknownWiki :
    With(linkRule(Drop(s, m[3]),
                  IF unknownWiki THEN linkPlaceholders
                  ELSE Append(linkPlaceholders,
                              linkHtml(target, IF text # <<>> THEN text ELSE target,
                                       currentNamespace)),
                  currentNamespace), LAMBDA rest :
        <<SubSeq(s, 1, p - 1)
          \o (IF unknownWiki THEN SubSeq(s, p, m[3])
              ELSE <<N("LINK", Len(linkPlaceholders))>>)
          \o rest[1],
          rest[2]>>))))))

\* a formatting rule /D(.+?)D/g with replace '<tag>$1</tag>'
RECURSIVE wrapRule(_, _, _, _)
wrapRule(s, delim, open, close) ==
    LET p == IndexFrom(s, delim, 1)
        q == IF p = 0 THEN 0 ELSE IndexFrom(s, delim, p + 2)
    IN  IF q = 0 THEN s
        ELSE SubSeq(s, 1, p - 1) \o <<open>> \o SubSeq(s, p + 1, q - 1) \o <<close>>
             \o wrapRule(Drop(s, q), delim, open, close)

\* the characters that [^|{}] excludes
NotSrcKinds == {"|", "{{", "}}"}

\* The match of the image pattern that starts at the {{ at p, the source
\* ending at q or later: <<end of src, start of alt or 0, index of }}>>
RECURSIVE imageMatch(_, _)
imageMatch(s, q) ==
    IF q >= Len(s) \/ Kind(s[q]) \in NotSrcKinds THEN <<0, 0, 0>>
    ELSE IF s[q + 1] = T("|") /\ IndexFrom(s, T("}}"), q + 3) # 0
         THEN <<q, q + 2, IndexFrom(s, T("}}"), q + 3)>>
    ELSE IF s[q + 1] = T("}}") THEN <<q, 0, q + 1>>
    ELSE imageMatch(s, q + 1)

\* s without the spaces at its end
RECURSIVE TrimEnd(_)
TrimEnd(s) == IF s # <<>> /\ Last(s) = SPACE THEN TrimEnd(Front(s)) ELSE s

\* the group (\s*) before the source is not empty.  The source [^|{}]+? needs
\* one character, so that of a text of spaces only the last one is the source.
leadingSpace(inner) ==
    inner # <<>> /\ Head(inner) = SPACE /\ (~IsBlank(inner) \/ Len(inner) >= 2)

\* the group (\s*) before }} is not empty: the spaces at the end of the alt
\* text, or of the source when there is no alt text; the lazy groups before it
\* keep one character of a text of spaces only
trailingSpace(inner, alt0) ==
    IF alt0 = <<>> THEN inner # <<>> /\ Last(inner) = SPACE /\ ~IsBlank(inner)
    ELSE Last(alt0) = SPACE /\ (~IsBlank(alt0) \/ Len(alt0) >= 2)

\* lines 1621-1624: className, and `${classAttr} loading="lazy">`
imageClass(leading, trailing) ==
    IF ~leading /\ ~trailing THEN T(" class=mediacenter loading=lazy>")
    ELSE IF leading /\ ~trailing THEN T(" class=mediaright loading=lazy>")
    ELSE IF ~leading /\ trailing THEN T(" class=medialeft loading=lazy>")
    ELSE T(" loading=lazy>")

\* the <img> the image callback returns (no size, no linkonly)
imageHtml(src0, alt, leading, trailing) ==
    LET src == ReplaceAll(IF StartsWith(src0, <<COLON>>) THEN Tail(src0) ELSE src0,
                          COLON, <<T("/")>>)
        altAttr == IF alt # <<>> THEN <<T(" alt=")>> \o alt \o <<T(" title=")>> \o alt
                   ELSE <<>>
    IN  <<T("<img src=/media/")>> \o src \o altAttr \o <<imageClass(leading, trailing)>>

\* the image rule; a {{ at which the pattern fails is passed over
RECURSIVE imageRule(_)
imageRule(s) ==
    LET p == IndexFrom(s, T("{{"), 1)
        m == IF p = 0 THEN <<0, 0, 0>> ELSE imageMatch(s, p + 1)
    IN  IF p = 0 THEN s
        ELSE IF m[3] = 0 THEN SubSeq(s, 1, p) \o imageRule(Drop(s, p))
        ELSE With(SubSeq(s, p + 1, m[1]), LAMBDA inner :
             With(IF m[2] = 0 THEN <<>> ELSE SubSeq(s, m[2], m[3] - 1), LAMBDA alt0 :
                 SubSeq(s, 1, p - 1)
                 \o imageHtml(Trim(inner),
                              IF alt0 # <<>> /\ IsBlank(alt0) THEN <<SPACE>>
                              ELSE TrimEnd(alt0),
                              leadingSpace(inner), trailingSpace(inner, alt0))
                 \o imageRule(Drop(s, m[3]))))

\* the last index of the run of name tokens that starts at k
RECURSIVE urlEnd(_, _)
urlEnd(s, k) ==
    IF k < Len(s) /\ Kind(s[k + 1]) \in AlnumKinds THEN urlEnd(s, k + 1) ELSE k

\* the anchor the URL autolink callback returns; it is returned into the
\* text, not stored in linkPlaceholders
urlHtml(url) ==
    <<T("<a href=")>> \o url \o <<T(" class=urlextern rel=nofollow title=")>> \o url
    \o <<T(">")>> \o Drop(url, 2) \o <<T("</a>")>>

\* /(^|\s)(https?:\/\/[^\s<]+[^\s<.,:;"')\]\}])/g: a URL is the tokens
\* "http:" and "//" followed by name tokens, at the start of the text or after
\* a space (atStart)
RECURSIVE urlRule(_, _)
urlRule(s, atStart) ==
    IF s = <<>> THEN s
    ELSE IF /\ atStart
            /\ Len(s) >= 3
            /\ s[1] = T("http:") /\ s[2] = T("//")
            /\ Kind(s[3]) \in AlnumKinds
         THEN With(urlEnd(s, 3), LAMBDA e :
                  urlHtml(SubSeq(s, 1, e)) \o urlRule(Drop(s, e), FALSE))
    ELSE <<Head(s)>> \o urlRule(Tail(s), Head(s) = SPACE)

\* /<(?:html|HTML)>([\s\S]*?)<\/(?:html|HTML)>/g and the same pattern for
\* php: each <open> with the first <close> after it is replaced by its
\* content as it is (pre = <<>>) or by `${pre}${escapeEntities(content)}</pre>`
RECURSIVE embedRule(_, _, _, _)
embedRule(s, open, close, pre) ==
    With(IndexFrom(s, open, 1), LAMBDA p :
    With(IF p = 0 THEN 0 ELSE IndexFrom(s, close, p + 1), LAMBDA q :
        IF q = 0 THEN s
        ELSE SubSeq(s, 1, p - 1)
             \o (IF pre = <<>> THEN SubSeq(s, p + 1, q - 1)
                 ELSE pre \o escapeEntities(SubSeq(s, p + 1, q - 1)) \o <<T("</pre>")>>)
             \o embedRule(Drop(s, q), open, close, pre)))

\* line 1653: this.htmlok ? content : `<pre class="code html">...</pre>`
htmlRule(s, htmlok) ==
    embedRule(s, T("<html>"), T("</html>"),
              IF htmlok THEN <<>> ELSE <<T("<pre class=code html>")>>)

\* line 1657
phpRule(s) == embedRule(s, T("<php>"), T("</php>"), <<T("<pre class=code php>")>>)

\* The typography rules (options.typography !== false) that a token of the
\* model can match: /\s->(?=\s)/g with ' &rarr; ', which rewrites the space
\* before the arrow and the arrow and leaves the space after them in place,
\* and /(\d+)x(\d+)/g with '$1&times;$2'
RECURSIVE typographyRule(_)
typographyRule(s) ==
    IF s = <<>> THEN s
    ELSE IF Len(s) >= 3 /\ s[1] = SPACE /\ s[2] = T("->") /\ s[3] = SPACE
         THEN <<SPACE, T("&rarr;"), SPACE>> \o typographyRule(Drop(s, 2))
    ELSE IF Head(s) = T("10x20")
         THEN <<T("10&times;20")>> \o typographyRule(Tail(s))
    ELSE <<Head(s)>> \o typographyRule(Tail(s))

-----------------------------------------------------------------------------
(* applyRules and parseFootnotes.  st is the state a call of parse() works  *)
(* on: the fields of the instance together with the locals of the call.    *)

\* a variant of footnoteGet that finds no note
footnoteGetMiss(footnoteContent, note) == -1

\* this.footnoteContent.get(note): the stored index, or -1 for undefined.
\* The Map is the sequence of its entries in insertion order.
footnoteGet(footnoteContent, note) ==
    IF \E k \in 1..Len(footnoteContent) : footnoteContent[k].note = note
    THEN footnoteContent[CHOOSE k \in 1..Len(footnoteContent) :
                             footnoteContent[k].note = note].index
    ELSE -1

\* footnoteContent.set(note, footnoteContent.size) for a note that get() did not find
footnoteSet(footnoteContent, note) ==
    Append(footnoteContent, [note |-> note, index |-> Len(footnoteContent)])

\* the marker the callback returns: its href, its id and its label are all
\* made of index + 1 and of nothing else
footnoteMarker(index) == N("fnref", index + 1)

\* content.replace(/\(\((.+?)\)\)/g, callback): <<st, the rewritten text>>.
\* st.cited is a history variable: the <<note, number>> of every marker emitted.
RECURSIVE parseFootnotes(_, _)
parseFootnotes(st, s) ==
    With(IndexFrom(s, T("(("), 1), LAMBDA p :
    With(IF p = 0 THEN 0 ELSE IndexFrom(s, T("))"), p + 2), LAMBDA q :
        IF q = 0 THEN <<st, s>>
        ELSE
    With(SubSeq(s, p + 1, q - 1), LAMBDA note :
    With(footnoteGet(st.footnoteContent, note), LAMBDA found :
    With(IF found = -1 THEN Len(st.footnoteContent) ELSE found, LAMBDA index :
    With(parseFootnotes(
             IF IsBlank(note) THEN st
             ELSE [st EXCEPT
                     !.footnoteContent = IF found = -1 THEN footnoteSet(@, note) ELSE @,
                     !.cited = Append(@, <<note, footnoteMarker(index)[2]>>)],
             Drop(s, q)), LAMBDA rest :
        <<rest[1],
          SubSeq(s, 1, p - 1)
          \o (IF IsBlank(note) THEN SubSeq(s, p, q) ELSE <<footnoteMarker(index)>>)
          \o rest[2]>>))))))

\* placeholders.forEach((raw, idx) => result = result.replace(/\[KIND_idx\]/g,
\*                                                    escapeEntities(raw)))
RECURSIVE resolvePlaceholders(_, _, _, _)
resolvePlaceholders(s, kind, placeholders, idx) ==
    IF idx >= Len(placeholders) THEN s
    ELSE resolvePlaceholders(
             ReplaceAll(s, N(kind, idx), escapeEntities(placeholders[idx + 1])),
             kind, placeholders, idx + 1)

\* the tokens that the entries of a placeholder table from index from on
\* were given, each with its entry: <<token, entry>>
issuedBy(kind, placeholders, from) ==
    [k \in 1..(Len(placeholders) - from) |->
        <<N(kind, from + k - 1), placeholders[from + k]>>]

\* the rules of the array, in its order, that can match a modelled fragment:
\* <<st, the rewritten text>>.  st.issued is a history variable: every
\* placeholder token a rule has returned, with the entry it stands for.
applyInlineRules(st, content) ==
    With(nowikiRule(content, <<>>), LAMBDA r1 :
    With(percentRule(r1[1], <<>>), LAMBDA r2 :
    With(linkRule(r2[1], st.linkPlaceholders, st.currentNamespace), LAMBDA r3 :
        <<[st EXCEPT !.nowikiPlaceholders = r1[2],
                     !.percentPlaceholders = r2[2],
                     !.linkPlaceholders = r3[2],
                     !.issued = @ \o issuedBy("NOWIKI", r1[2], 0)
                                  \o issuedBy("PERCENT", r2[2], 0)
                                  \o issuedBy("LINK", r3[2], Len(st.linkPlaceholders))],
          With(wrapRule(r3[1], T("**"), T("<strong>"), T("</strong>")), LAMBDA t1 :
          With(wrapRule(t1, T("//"), T("<em>"), T("</em>")), LAMBDA t2 :
          With(imageRule(t2), LAMBDA t3 :
          With(urlRule(t3, TRUE), LAMBDA t4 :
          With(htmlRule(t4, st.htmlok), LAMBDA t5 :
          With(phpRule(t5), LAMBDA t6 : typographyRule(t6)))))))>>)))

\* applyRules(content): <<st, the returned text>>
applyRules(st, content) ==
    With(applyInlineRules(st, content), LAMBDA r :
        parseFootnotes(
            r[1],
            resolvePlaceholders(
                resolvePlaceholders(r[2], "NOWIKI", r[1].nowikiPlaceholders, 0),
                "PERCENT", r[1].percentPlaceholders, 0)))

-----------------------------------------------------------------------------
(* parse(): the block state machine.  A line of the input is a record      *)
(* [indent, toks]: the number of its leading spaces and the tokens that    *)
(* follow them (its trimmed text; whitespace inside it is the token " ").  *)
(* result is the array of the pushed strings, one sequence per push.       *)

NL == T("\n")

\* the line as the string it is: its leading spaces, then its text
lineText(line) == [k \in 1..line.indent |-> SPACE] \o line.toks

\* s.lastIndexOf(tok), 0 when there is none
RECURSIVE LastIndexOf(_, _, _)
LastIndexOf(s, tok, from) ==
    IF from < 1 THEN 0
    ELSE IF s[from] = tok THEN from
    ELSE LastIndexOf(s, tok, from - 1)

push(st, item) == [st EXCEPT !.result = Append(@, item)]

RECURSIVE pushTimes(_, _, _)
pushTimes(st, item, times) ==
    IF times <= 0 THEN st ELSE pushTimes(push(st, item), item, times - 1)

\* content.replace(/\\\\\s*$/, '').replace(/\\\\\s+/g, '<br>') on a trimmed text
RECURSIVE breaksToBr(_)
breaksToBr(s) ==
    IF s = <<>> THEN s
    ELSE IF Head(s) = T("\\\\") /\ Len(s) >= 2 /\ s[2] = SPACE
         THEN LET k == CHOOSE k \in 2..Len(s) :
                           /\ \A m \in 2..k : s[m] = SPACE
                           /\ (k = Len(s) \/ s[k + 1] # SPACE)
              IN  <<T("<br>")>> \o breaksToBr(Drop(s, k))
    ELSE <<Head(s)>> \o breaksToBr(Tail(s))

hardBreaks(s) ==
    breaksToBr(IF s # <<>> /\ Last(s) = T("\\\\") THEN Front(s) ELSE s)

\* `<${tag}>` and `</${tag}>` of a list
listOpen(type) == T(IF type = "ul" THEN "<ul>" ELSE "<ol>")
listClose(type) == T(IF type = "ul" THEN "</ul>" ELSE "</ol>")

\* this.currentIndent / this.currentType after a pop of the list stack
topIndent(listStack) == IF listStack # <<>> THEN Last(listStack).indent ELSE -1
topType(listStack) == IF listStack # <<>> THEN Last(listStack).type ELSE "null"

\* flushBlocks, lines 2225-2231: while (this.listStack.length > 0)
\*     result.push(`</${this.listStack.pop().type}>`)
RECURSIVE flushLists(_)
flushLists(st) ==
    IF st.listStack = <<>> THEN st
    ELSE flushLists([push(st, <<listClose(Last(st.listStack).type)>>) EXCEPT
                        !.listStack = Front(@),
                        !.currentIndent = -1,
                        !.currentType = "null"])

\* flushBlocks, lines 2232-2236
flushTable(st) ==
    IF st.tableBuffer = <<>> THEN st
    ELSE [push(st, <<T("<table class=inline>")>> \o Concat(st.tableBuffer)
                   \o <<T("</table>")>>) EXCEPT
             !.tableBuffer = <<>>,
             !.tableRowspans = <<>>]

\* flushBlocks, lines 2237-2242: quoteLevel = 0 assigns the parameter, the
\* quoteLevel of parse() keeps its value
flushQuotes(st) == pushTimes(st, <<T("</div></blockquote>")>>, st.quoteLevel)

\* flushBlocks, lines 2243-2249
flushParagraph(st) ==
    IF st.paragraphBuffer = <<>> THEN st
    ELSE LET paraContent == Join(st.paragraphBuffer, SPACE)
             st1 == IF ~IsBlank(paraContent)
                    THEN push(st, <<T("<p>")>> \o paraContent \o <<T("</p>")>>)
                    ELSE st
         IN  [st1 EXCEPT !.paragraphBuffer = <<>>]

\* flushBlocks, lines 2250-2254: codeLang is a local of parse() and is not in
\* the scope of flushBlocks, so that reading it raises a ReferenceError
flushCode(st) ==
    IF st.codeBlockBuffer = <<>> THEN st
    ELSE [st EXCEPT !.pc = "threw"]

flushBlocks(st) == flushCode(flushParagraph(flushQuotes(flushTable(flushLists(st)))))

\* the flush of the last line: if (i === lines.length - 1) this.flushBlocks(...)
flushIfLast(st) == IF st.i = Len(st.lines) - 1 THEN flushBlocks(st) ELSE st

\* `<pre class="...">${this.escapeEntities(buffer.join('\n'))}</pre>`
preHtml(class, buffer) ==
    <<T(class)>> \o escapeEntities(Join(buffer, NL)) \o <<T("</pre>")>>

\* parse, lines 1799-1814: a line whose trimmed text is empty
blankLine(st, line) ==
    IF st.inTable
    THEN With(flushBlocks(st), LAMBDA f :
             IF f.pc = "threw" THEN f ELSE [f EXCEPT !.inTable = FALSE])
    ELSE IF st.inCodeBlock THEN [st EXCEPT !.codeBlockBuffer = Append(@, <<>>)]
    ELSE IF st.inPre THEN [st EXCEPT !.preBuffer = Append(@, line)]
    ELSE IF st.quoteLevel > 0 \/ st.paragraphBuffer # <<>> \/ st.listStack # <<>>
         THEN With(flushBlocks(st), LAMBDA f :
                  IF f.pc = "threw" THEN f ELSE [f EXCEPT !.quoteLevel = 0])
    ELSE st

\* parse, lines 1816-1857: a line that starts with <code> (close = "</code>",
\* class = "<pre class=code>") or with <file>
fenceOpen(st, line, close, class) ==
    With(flushBlocks(st), LAMBDA f :
    With(Tail(line.toks), LAMBDA contentAfter :
        IF f.pc = "threw" THEN f
        ELSE IF Includes(line.toks, T(close))
             THEN [push(f, preHtml(class,
                                   <<SubSeq(contentAfter, 1,
                                            LastIndexOf(contentAfter, T(close),
                                                        Len(contentAfter)) - 1)>>))
                   EXCEPT
                      !.inCodeBlock = FALSE,
                      !.codeBlockBuffer = <<>>,
                      !.codeLang = "",
                      !.inCodeSection = FALSE]
        ELSE [f EXCEPT !.inCodeBlock = TRUE,
                       !.inCodeSection = TRUE,
                       !.codeBlockBuffer = <<contentAfter>>,
                       !.codeLang = class]))

\* parse, lines 1858-1868: inside a block, a line that ends with </code> or </file>
fenceClose(st, line) ==
    With(lineText(line), LAMBDA text :
    With(IF Last(line.toks) = T("</code>") THEN T("</code>") ELSE T("</file>"),
         LAMBDA endTag :
        [push(st, preHtml(st.codeLang,
                          Append(st.codeBlockBuffer,
                                 SubSeq(text, 1,
                                        LastIndexOf(text, endTag, Len(text)) - 1))))
         EXCEPT
            !.inCodeBlock = FALSE,
            !.codeBlockBuffer = <<>>,
            !.codeLang = "",
            !.inCodeSection = FALSE]))

\* parse, lines 1869-1871: any other line inside a block
codeLine(st, line) == [st EXCEPT !.codeBlockBuffer = Append(@, lineText(line))]

\* parse, lines 1877-1880: trimmed.match(/^(?:>|={2,6}.*={2,6}|[\^|]|-{4,})$/)
isHeader(toks) ==
    /\ toks # <<>>
    /\ Kind(Head(toks)) = "=" /\ Kind(Last(toks)) = "="
    /\ IF Len(toks) = 1 THEN Head(toks)[2] >= 4
       ELSE Head(toks)[2] >= 2 /\ Last(toks)[2] >= 2

isRule(toks) == toks = <<T("----")>>

preFlushParagraph(st, line) ==
    IF /\ st.paragraphBuffer # <<>>
       /\ \/ line.indent >= 2
          \/ line.toks \in {<<T(">")>>, <<T("^")>>, <<T("|")>>}
          \/ isHeader(line.toks)
          \/ isRule(line.toks)
    THEN flushBlocks(st)
    ELSE st

\* the kinds of token whose first character is '*' or '-'
StarDashKinds == {"*", "-", "**", "----"}

\* parse, line 1882: (line[indent] === '*' || line[indent] === '-') &&
\* (line[indent + 1] === ' ' || line.substring(indent + 1).trim() === '')
isListItem(line) ==
    /\ line.indent >= 2
    /\ line.toks # <<>>
    /\ Head(line.toks) \in {T("*"), T("-")}
    /\ (Len(line.toks) = 1 \/ line.toks[2] = SPACE)

\* a variant of popList that emits no closing tag
popListSilent(st) ==
    [st EXCEPT
        !.listStack = Front(@),
        !.currentIndent = topIndent(Front(st.listStack)),
        !.currentType = topType(Front(st.listStack))]

\* one pop of the list stack with its closing tag
popList(st) ==
    [push(st, <<listClose(Last(st.listStack).type)>>) EXCEPT
        !.listStack = Front(@),
        !.currentIndent = topIndent(Front(st.listStack)),
        !.currentType = topType(Front(st.listStack))]

\* parse, lines 1890-1896: close lists if indent decreases
RECURSIVE closeDeeper(_, _)
closeDeeper(st, depth) ==
    IF st.currentIndent > depth /\ st.listStack # <<>>
    THEN closeDeeper(popList(push(st, <<T("</li>")>>)), depth)
    ELSE st

\* a variant of pushList that leaves currentIndent as it was
pushListStale(st, listType, depth) ==
    [push(st, <<listOpen(listType)>>) EXCEPT
        !.listStack = Append(@, [type |-> listType, indent |-> depth]),
        !.currentType = listType]

\* one push of the list stack with its opening tag
pushList(st, listType, depth) ==
    [push(st, <<listOpen(listType)>>) EXCEPT
        !.listStack = Append(@, [type |-> listType, indent |-> depth]),
        !.currentType = listType,
        !.currentIndent = depth]

\* parse, lines 1898-1910: open new list or switch type
openOrSwitch(st, listType, depth) ==
    IF st.currentIndent = -1 \/ depth > st.currentIndent
    THEN pushList(st, listType, depth)
    ELSE IF depth = st.currentIndent /\ st.currentType # listType
         THEN LET closed == [push(push(st, <<T("</li>")>>),
                                  <<listClose(Last(st.listStack).type)>>) EXCEPT
                                !.listStack = Front(@)]
              IN  [push(closed, <<listOpen(listType)>>) EXCEPT
                      !.listStack = Append(@, [type |-> listType, indent |-> depth]),
                      !.currentType = listType]
    ELSE st

\* parse, lines 1924-1928
RECURSIVE closeDownTo(_, _)
closeDownTo(st, nextDepth) ==
    IF st.listStack # <<>> /\ st.currentIndent >= nextDepth
    THEN closeDownTo(popList(st), nextDepth)
    ELSE st

\* a variant of lookAhead that closes the item and every open list, whatever
\* the next line is
lookAheadClose(st, depth) == flushLists(push(st, <<T("</li>")>>))

\* parse, lines 1915-1938: check if next line is a list item or non-list
lookAhead(st, depth) ==
    IF st.i + 1 < Len(st.lines)
    THEN LET nextLine == st.lines[st.i + 2]
             nextBlank == nextLine.toks = <<>>
             nextIndent == nextLine.indent
             nextDepth == nextIndent \div 2
             nextMarker == ~nextBlank /\ Kind(Head(nextLine.toks)) \in StarDashKinds
         IN  IF nextBlank \/ nextIndent < 2 \/ ~nextMarker \/ nextDepth < depth
             THEN IF nextBlank \/ nextIndent < 2 \/ nextDepth < depth
                  THEN closeDownTo(push(st, <<T("</li>")>>), nextDepth)
                  ELSE push(st, <<T("</li>")>>)
             ELSE st
    ELSE flushLists(push(st, <<T("</li>")>>))

\* parse, lines 1882-1941: the list item branch
listItem(st, line) ==
    With(applyRules(st, hardBreaks(Trim(Drop(line.toks, 2)))), LAMBDA r :
    With(IF Head(line.toks) = T("*") THEN "ul" ELSE "ol", LAMBDA listType :
    With(line.indent \div 2, LAMBDA depth :
        lookAhead(push(openOrSwitch(closeDeeper(r[1], depth), listType, depth),
                       <<N("<li class=level", depth), T("<div class=li>")>> \o r[2]
                       \o <<T("</div>")>>),
                  depth))))

\* line.match(/^( {2,})([*|-]\s)/)
looksLikeItem(line) ==
    /\ line.indent >= 2
    /\ Len(line.toks) >= 2
    /\ Head(line.toks) \in {T("*"), T("|"), T("-")}
    /\ line.toks[2] = SPACE

\* preBuffer.map(l => l.replace(/^ {2,}/, '')).join('\n'), escaped, in <pre>
preBlockHtml(preBuffer) ==
    preHtml("<pre class=code>",
            [k \in 1..Len(preBuffer) |->
                IF preBuffer[k].indent >= 2 THEN preBuffer[k].toks
                ELSE lineText(preBuffer[k])])

\* parse, lines 1943-1951: an indented line that is not a list item
startsPre(st, line) ==
    ~st.inCodeBlock /\ ~st.inTable /\ line.indent >= 2 /\ ~looksLikeItem(line)

preStart(st, line) ==
    With(flushBlocks(st), LAMBDA f :
        IF f.pc = "threw" THEN f
        ELSE [f EXCEPT !.inPre = TRUE,
                       !.inCodeSection = TRUE,
                       !.preBuffer = <<line>>,
                       !.codeBlockIndent = line.indent])

\* parse, lines 1953-1966, when the line continues the open block
continuesPre(st, line) ==
    st.inPre /\ line.indent >= st.codeBlockIndent /\ ~looksLikeItem(line)

preContinue(st, line) == [st EXCEPT !.preBuffer = Append(@, line)]

\* parse, lines 1957-1965: the open block is emitted and the line goes on
preClose(st) ==
    IF st.inPre
    THEN [push(st, preBlockHtml(st.preBuffer)) EXCEPT
             !.inPre = FALSE,
             !.preBuffer = <<>>,
             !.inCodeSection = FALSE,
             !.codeBlockIndent = -1]
    ELSE st

\* line.match(/^(>+)\s*(.*)/): the number of leading '>' of the line
RECURSIVE quoteRun(_)
quoteRun(toks) ==
    IF toks # <<>> /\ Head(toks) = T(">") THEN 1 + quoteRun(Tail(toks)) ELSE 0

isQuote(line) == line.indent = 0 /\ quoteRun(line.toks) > 0

\* parse, lines 1978-2005: the blockquote branch
quoteLine(st, line) ==
    With(quoteRun(line.toks), LAMBDA newLevel :
    With(applyRules(st, hardBreaks(Trim(Drop(line.toks, newLevel)))), LAMBDA r :
    With(pushTimes(r[1], <<T("</div></blockquote>")>>, r[1].quoteLevel - newLevel),
         LAMBDA closed :
    With(pushTimes(closed, <<T("<blockquote><div class=no>")>>,
                   newLevel - r[1].quoteLevel), LAMBDA opened :
    With(push(push(opened, r[2]), <<T("</div></blockquote>")>>), LAMBDA body :
        IF st.i = Len(st.lines) - 1
        THEN [pushTimes(body, <<T("</div></blockquote>")>>, newLevel) EXCEPT
                 !.quoteLevel = 0]
        ELSE [body EXCEPT !.quoteLevel = newLevel])))))

\* parse, lines 2006-2011: a line that is no quote closes the open levels
quoteEnd(st) ==
    [pushTimes(st, <<T("</div></blockquote>")>>, st.quoteLevel) EXCEPT !.quoteLevel = 0]

\* trimmed.startsWith('^') || trimmed.startsWith('|')
startsRow(toks) == toks # <<>> /\ Head(toks) \in {T("^"), T("|")}

\* the index k of the while loop of lines 2057-2061: the first cell after j
\* that is not empty, or the number of cells
RECURSIVE skipEmpty(_, _)
skipEmpty(cellContents, k) ==
    IF k < Len(cellContents) /\ cellContents[k + 1] = <<>>
    THEN skipEmpty(cellContents, k + 1)
    ELSE k

\* `<${tag}${rowspanAttr}${colspanAttr}${classAttr}>${content}</${tag}>`
cellHtml(isHeaderRow, j, rowspan, colspan, content) ==
    <<N(IF isHeaderRow THEN "<th" ELSE "<td", j)>>
    \o (IF rowspan > 0 THEN <<N(" rowspan=", rowspan)>> ELSE <<>>)
    \o (IF colspan > 1 THEN <<N(" colspan=", colspan)>> ELSE <<>>)
    \o <<T(IF isHeaderRow THEN " class=col>" ELSE " class=col leftalign>")>>
    \o content
    \o <<T(IF isHeaderRow THEN "</th>" ELSE "</td>")>>

\* parse, lines 2049-2085: the cells of one row, from cell j on:
\* <<st, the cells' markup>>
RECURSIVE cellLoop(_, _, _, _)
cellLoop(st, cellContents, isHeaderRow, j) ==
    IF j >= Len(cellContents) THEN <<st, <<>>>>
    ELSE IF st.tableRowspans[j + 1] > 0
         THEN cellLoop([st EXCEPT !.tableRowspans[j + 1] = @ - 1],
                       cellContents, isHeaderRow, j + 1)
    ELSE IF cellContents[j + 1] = <<COLON, COLON, COLON>>
         THEN cellLoop([st EXCEPT !.tableRowspans[j + 1] = @ - 1],
                       cellContents, isHeaderRow, j + 1)
    ELSE
    With(cellContents[j + 1], LAMBDA cell :
    With(skipEmpty(cellContents, j + 1), LAMBDA k :
    With(cell # <<>> /\ \A m \in 1..Len(cell) : cell[m] = COLON, LAMBDA colons :
    With(applyRules(IF colons THEN [st EXCEPT !.tableRowspans[j + 1] = Len(cell) - 1]
                    ELSE st,
                    IF colons THEN <<>> ELSE cell), LAMBDA r :
    With(cellLoop(r[1], cellContents, isHeaderRow, k), LAMBDA rest :
        <<rest[1],
          cellHtml(isHeaderRow, j, IF colons THEN Len(cell) ELSE 0, k - j, r[2])
          \o rest[2]>>)))))

\* parse, lines 2019-2024 and 2026-2042: the cells of the row
rowCells(toks, isHeaderRow) ==
    With(Split(Trim(Tail(toks)), IF isHeaderRow THEN T("^") ELSE T("|")), LAMBDA cells :
        [k \in 1..Len(cells) |-> hardBreaks(Trim(cells[k]))])

\* parse, lines 2013-2097: the table row branch
tableRow(st, line) ==
    With(IF st.paragraphBuffer # <<>> \/ st.quoteLevel > 0 \/ st.listStack # <<>>
         THEN flushBlocks(st) ELSE st, LAMBDA f :
        IF f.pc = "threw" THEN f
        ELSE
    With(Head(line.toks) = T("^") /\ ~Includes(line.toks, T("|")), LAMBDA isHeaderRow :
    With(rowCells(line.toks, isHeaderRow), LAMBDA cellContents :
    With(cellLoop(IF Len(f.tableRowspans) = 0
                     \/ Len(f.tableRowspans) # Len(cellContents)
                  THEN [f EXCEPT !.tableRowspans = [k \in 1..Len(cellContents) |-> 0]]
                  ELSE f,
                  cellContents, isHeaderRow, 0), LAMBDA r :
        flushIfLast([r[1] EXCEPT
                        !.tableBuffer = Append(@, <<T("<tr class=row0>")>> \o r[2]
                                                  \o <<T("</tr>")>>),
                        !.inTable = TRUE])))))

\* (trimmed.match(/=/g) || []).length: the number of '=' of the line
RECURSIVE countEquals(_)
countEquals(toks) ==
    IF toks = <<>> THEN 0
    ELSE (IF Kind(Head(toks)) = "=" THEN Head(toks)[2] ELSE 0) + countEquals(Tail(toks))

\* trimmed.replace(/^={2,6}/, '').replace(/={2,6}$/, '').trim()
headerText(toks) ==
    LET cut(tok) == IF tok[2] > 6 THEN <<N("=", tok[2] - 6)>> ELSE <<>>
        a == cut(Head(toks)) \o Tail(toks)
        b == IF a # <<>> /\ Kind(Last(a)) = "=" /\ Last(a)[2] >= 2
             THEN Front(a) \o cut(Last(a)) ELSE a
    IN  Trim(b)

\* content.toLowerCase().replace(/[^a-z0-9]/g, '_').replace(/_+/g, '_')
\*        .replace(/^_|_$/g, '')
RECURSIVE slugRuns(_)
slugRuns(s) ==
    IF s = <<>> THEN s
    ELSE IF Kind(Head(s)) \in AlnumKinds THEN <<Head(s)>> \o slugRuns(Tail(s))
    ELSE IF Len(s) >= 2 /\ Kind(s[2]) \notin AlnumKinds THEN slugRuns(Tail(s))
    ELSE <<T("_")>> \o slugRuns(Tail(s))

slug(content) ==
    LET a == slugRuns(content)
        b == IF a # <<>> /\ Head(a) = T("_") THEN Tail(a) ELSE a
    IN  IF b # <<>> /\ Last(b) = T("_") THEN Front(b) ELSE b

\* the headings after which the code treats rows as literal text (line 2114)
LiteralSections == {<<T("Tables")>>, <<T("Links")>>}

\* parse, lines 2104-2116: the header branch
headerLine(st, line) ==
    With(flushBlocks(st), LAMBDA f :
        IF f.pc = "threw" THEN f
        ELSE
    With(applyRules(f, headerText(line.toks)), LAMBDA r :
    With(6 - (countEquals(line.toks) \div 2) + 1, LAMBDA l :
    With(IF l < 1 THEN 1 ELSE IF l > 6 THEN 6 ELSE l, LAMBDA level :
        [push(r[1], <<N("<h", level), T(" id=")>> \o slug(r[2]) \o <<T(">")>> \o r[2]
                    \o <<N("</h", level)>>)
         EXCEPT !.currentSectionLevel = level,
                !.inCodeSection = r[2] \in LiteralSections]))))

\* parse, lines 2118-2123
ruleLine(st) ==
    With(flushBlocks(st), LAMBDA f :
        IF f.pc = "threw" THEN f
        ELSE [push(f, <<T("<hr>")>>) EXCEPT !.inCodeSection = FALSE])

\* trimmed.match(/^\{\{.*\}\}$/)
isImageLine(toks) == Len(toks) >= 2 /\ Head(toks) = T("{{") /\ Last(toks) = T("}}")

\* parse, lines 2125-2130
imageLine(st, line) ==
    With(applyRules(st, line.toks), LAMBDA r :
        flushIfLast(push(r[1], <<T("<p>")>> \o r[2] \o <<T("</p>")>>)))

\* parse, lines 2138-2145: a row inside a literal section
literalRow(st, line) ==
    With(applyRules(st, hardBreaks(line.toks)), LAMBDA r :
        flushIfLast(push(r[1], <<T("<pre class=code>")>> \o r[2] \o <<T("</pre>")>>)))

\* a variant of paragraphLine that emits the paragraph after every line
paragraphLineEach(st, line) ==
    With(applyRules(st, hardBreaks(line.toks)), LAMBDA r :
        flushBlocks([r[1] EXCEPT !.paragraphBuffer = Append(@, r[2])]))

\* parse, lines 2147-2151: the default paragraph branch
paragraphLine(st, line) ==
    With(applyRules(st, hardBreaks(line.toks)), LAMBDA r :
        flushIfLast([r[1] EXCEPT !.paragraphBuffer = Append(@, r[2])]))

\* parse, lines 2099-2102 and 2132-2135: a line that is no row ends the table
endTable(st) ==
    IF st.inTable
    THEN With(flushBlocks(st), LAMBDA f :
             IF f.pc = "threw" THEN f ELSE [f EXCEPT !.inTable = FALSE])
    ELSE st

\* parse, lines 2099-2152
afterTable(st, line) ==
    With(IF ~startsRow(line.toks) THEN endTable(st) ELSE st, LAMBDA s1 :
        IF s1.pc = "threw" THEN s1
        ELSE IF isHeader(line.toks) THEN headerLine(s1, line)
        ELSE IF isRule(line.toks) THEN ruleLine(s1)
        ELSE IF isImageLine(line.toks) THEN imageLine(s1, line)
        ELSE
    With(endTable(s1), LAMBDA s2 :
        IF s2.pc = "threw" THEN s2
        ELSE IF s2.inCodeSection /\ startsRow(line.toks) THEN literalRow(s2, line)
        ELSE paragraphLine(s2, line)))

\* parse, lines 1978-2097
afterPre(st, line) ==
    IF isQuote(line) THEN quoteLine(st, line)
    ELSE With(IF st.quoteLevel > 0 THEN quoteEnd(st) ELSE st, LAMBDA s1 :
             IF ~s1.inCodeSection /\ startsRow(line.toks) THEN tableRow(s1, line)
             ELSE afterTable(s1, line))

\* parse, lines 1874-1976.  The test of line 1968 finds inPre false, since
\* lines 1953-1966 have either continued or closed the open block.
afterCode(st, line) ==
    With(preFlushParagraph(st, line), LAMBDA s1 :
        IF s1.pc = "threw" THEN s1
        ELSE IF isListItem(line) /\ ~s1.inCodeBlock /\ ~s1.inTable THEN listItem(s1, line)
        ELSE IF startsPre(s1, line) THEN preStart(s1, line)
        ELSE IF continuesPre(s1, line) THEN preContinue(s1, line)
        ELSE afterPre(preClose(s1), line))

\* the body of the loop of parse for the line at index i (lines 1796-2152)
processLine(st) ==
    With(st.lines[st.i + 1], LAMBDA line :
        IF line.toks = <<>> THEN blankLine(st, line)
        ELSE IF Head(line.toks) = T("<code>")
             THEN fenceOpen(st, line, "</code>", "<pre class=code>")
        ELSE IF Head(line.toks) = T("<file>")
             THEN fenceOpen(st, line, "</file>", "<pre class=file>")
        ELSE IF st.inCodeBlock /\ Last(line.toks) \in {T("</code>"), T("</file>")}
             THEN fenceClose(st, line)
        ELSE IF st.inCodeBlock THEN codeLine(st, line)
        ELSE afterCode(st, line))

\* a variant of footnoteDefs that renders the definition of the first entry only
footnoteDefsFirst(st, entries, k) ==
    IF k > Len(entries) THEN st
    ELSE push(st, <<N("fndef", entries[1].index + 1)>>
                  \o escapeEntities(entries[1].note)
                  \o <<T("</div></div>")>>)

\* parse, lines 2162-2170: the footnote section
RECURSIVE footnoteDefs(_, _, _)
footnoteDefs(st, entries, k) ==
    IF k > Len(entries) THEN st
    ELSE footnoteDefs(
             IF IsBlank(entries[k].note) THEN st
             ELSE push(st, <<N("fndef", entries[k].index + 1)>>
                           \o escapeEntities(entries[k].note)
                           \o <<T("</div></div>")>>),
             entries, k + 1)

footnoteSection(st) ==
    IF Len(st.footnoteContent) > 0
    THEN push(footnoteDefs(push(st, <<T("<div class=footnotes>")>>),
                           st.footnoteContent, 1),
              <<T("</div>")>>)
    ELSE st

\* parse, lines 2173-2175: finalResult.replace(`[LINK_${index}]`, link) with
\* a string pattern, which replaces the first occurrence only
RECURSIVE resolveLinks(_, _, _)
resolveLinks(s, linkPlaceholders, index) ==
    IF index >= Len(linkPlaceholders) THEN s
    ELSE resolveLinks(ReplaceFirst(s, N("LINK", index), linkPlaceholders[index + 1]),
                      linkPlaceholders, index + 1)

\* a variant of finalResult that leaves the link placeholders in the text
finalResultUnresolved(st) ==
    resolvePlaceholders(
        resolvePlaceholders(Join(st.result, NL), "NOWIKI", st.nowikiPlaceholders, 0),
        "PERCENT", st.percentPlaceholders, 0)

\* parse, lines 2172-2183
finalResult(st) ==
    resolvePlaceholders(
        resolvePlaceholders(
            resolveLinks(Join(st.result, NL), st.linkPlaceholders, 0),
            "NOWIKI", st.nowikiPlaceholders, 0),
        "PERCENT", st.percentPlaceholders, 0)

\* parse, lines 2154-2184: after the loop
parseEnd(st) ==
    With(flushBlocks(st), LAMBDA f :
        IF f.pc = "threw" THEN f
        ELSE
    With(footnoteSection(IF f.inPre THEN push(f, preBlockHtml(f.preBuffer)) ELSE f),
         LAMBDA s2 :
        [s2 EXCEPT !.returned = finalResult(s2), !.pc = "done"]))

-----------------------------------------------------------------------------
(* The instance and the activations of parse() *)

\* the fields of the instance and the locals of a call, as one state
InstFields == {"currentNamespace", "footnoteContent", "linkPlaceholders",
               "nowikiPlaceholders", "percentPlaceholders", "listStack",
               "currentIndent", "currentType", "currentSectionLevel", "htmlok"}

LocalFields == {"pc", "lines", "i", "result", "returned", "tableBuffer",
                "tableRowspans", "quoteLevel", "paragraphBuffer", "inCodeBlock",
                "codeBlockBuffer", "inPre", "preBuffer", "codeLang", "inTable",
                "inCodeSection", "codeBlockIndent", "cited", "issued"}

\* constructor, lines 1528-1541 (options.currentNamespace || ''), without the
\* option htmlok (options.htmlok !== false)
constructed(currentNamespace) ==
    [currentNamespace |-> currentNamespace,
     htmlok |-> TRUE,
     footnoteContent |-> <<>>,
     linkPlaceholders |-> <<>>,
     nowikiPlaceholders |-> <<>>,
     percentPlaceholders |-> <<>>,
     listStack |-> <<>>,
     currentIndent |-> -1,
     currentType |-> "null",
     currentSectionLevel |-> 0]

\* a variant of resetInstance that keeps the footnote registry
resetKeepingFootnotes(inst) ==
    [inst EXCEPT !.linkPlaceholders = <<>>,
                 !.nowikiPlaceholders = <<>>,
                 !.percentPlaceholders = <<>>,
                 !.listStack = <<>>,
                 !.currentIndent = -1,
                 !.currentType = "null",
                 !.currentSectionLevel = 0]

\* parse, lines 1785-1793: the per-parse fields are reset
resetInstance(inst) ==
    [inst EXCEPT !.footnoteContent = <<>>,
                 !.linkPlaceholders = <<>>,
                 !.nowikiPlaceholders = <<>>,
                 !.percentPlaceholders = <<>>,
                 !.listStack = <<>>,
                 !.currentIndent = -1,
                 !.currentType = "null",
                 !.currentSectionLevel = 0]

\* parse, lines 1771-1784: the locals of a call on the lines of doku
\* (pc, returned and the history variables cited and issued belong to the model)
newLocals(lines) ==
    [pc |-> "loop",
     lines |-> lines,
     i |-> 0,
     result |-> <<>>,
     returned |-> <<>>,
     tableBuffer |-> <<>>,
     tableRowspans |-> <<>>,
     quoteLevel |-> 0,
     paragraphBuffer |-> <<>>,
     inCodeBlock |-> FALSE,
     codeBlockBuffer |-> <<>>,
     inPre |-> FALSE,
     preBuffer |-> <<>>,
     codeLang |-> "",
     inTable |-> FALSE,
     inCodeSection |-> FALSE,
     codeBlockIndent |-> -1,
     cited |-> <<>>,
     issued |-> <<>>]

\* a call that has not started
idleLocals == [newLocals(<<>>) EXCEPT !.pc = "idle"]

instOf(st) == [f \in InstFields |-> st[f]]
localsOf(st) == [f \in LocalFields |-> st[f]]

\* one iteration of the for loop of parse: the body, then i++
loopStep(st) ==
    With(processLine(st), LAMBDA s :
        IF s.pc = "threw" THEN s ELSE [s EXCEPT !.i = @ + 1])

\* parse(doku) run from its first line to its return or its exception
RECURSIVE runParse(_)
runParse(st) ==
    IF st.pc # "loop" THEN st
    ELSE IF st.i < Len(st.lines) THEN runParse(loopStep(st))
    ELSE parseEnd(st)

\* parse(doku) on a parser that has just been constructed
parseFresh(lines, currentNamespace) ==
    runParse(resetInstance(constructed(currentNamespace)) @@ newLocals(lines))

-----------------------------------------------------------------------------
(* Inputs *)

\* the greatest number of lines of a document
MaxLines == 3

\* the greatest number of calls of parse() on one instance
MaxCalls == 2

\* the greatest number of lines of a document of two interleaved calls
MaxConcLines == 2

\* the greatest number of tokens of a target of resolveNamespace
MaxTargetLen == 4

\* the greatest number of lines of a document of markup lines
MaxMarkupLines == 2

Calls == {1, 2}

L(indent, toks) == [indent |-> indent, toks |-> toks]

\* the documents of at most n lines over a set of lines
DocsOver(lineSet, n) == UNION {[1..k -> lineSet] : k \in 1..n}

Ns12 == <<T("ns1"), COLON, T("ns2")>>

Namespaces == {<<>>, <<T("ns1")>>, Ns12}

\* lines that exercise the block state machine
BlockLines ==
    {L(0, <<>>),
     L(0, <<T("a")>>),
     L(2, <<T("*"), SPACE, T("a")>>),
     L(4, <<T("*"), SPACE, T("b")>>),
     L(2, <<T("-"), SPACE, T("a")>>),
     L(4, <<T("-"), SPACE, T("b")>>),
     L(0, <<T("<code>")>>),
     L(0, <<T("<file>"), T("a")>>),
     L(0, <<T("a"), T("</code>")>>),
     L(0, <<T("<code>"), T("<"), T("</code>")>>),
     L(2, <<T("a")>>),
     L(0, <<T(">"), SPACE, T("a")>>),
     L(0, <<T("|"), SPACE, T("a"), SPACE, T("|")>>),
     L(0, <<N("=", 2), SPACE, T("a"), SPACE, N("=", 2)>>),
     L(0, <<T("----")>>)}

BlockDocs == DocsOver(BlockLines, MaxLines)


\* lines that leave the fields of the instance changed when parse() ends
RepeatLines ==
    {L(0, <<T("(("), T("a"), T("))")>>),
     L(0, <<T("(("), T("b"), T("))"), SPACE, T("[["), T("p"), T("]]")>>),
     L(2, <<T("*"), SPACE, T("<nowiki>"), T("a"), T("</nowiki>")>>),
     L(0, <<N("=", 2), SPACE, T("a"), SPACE, N("=", 2)>>),
     L(0, <<T("<code>")>>)}

RepeatDocs == DocsOver(RepeatLines, MaxLines)

\* the contents wrapped in <nowiki> and in %% by the lines below
LiteralContents ==
    {<<T("<")>>,
     <<T("**"), T("a"), T("**")>>,
     <<T("[["), T("p"), T("]]")>>,
     <<T("(("), T("a"), T("))")>>}

nowikiLine(c) == L(0, <<T("<nowiki>")>> \o c \o <<T("</nowiki>")>>)

percentLine(c) == L(0, <<T("%%")>> \o c \o <<T("%%")>>)

\* the line that is the text [LINK_0]
tokenTextLine == L(0, <<N("LINK", 0)>>)

\* paragraph lines that exercise the inline rules and the footnotes
InlineLines ==
    {L(0, <<T("**"), T("a"), T("**")>>),
     L(0, <<T("(("), T("a"), T("))")>>),
     L(0, <<T("(("), T("b"), T("))"), SPACE, T("(("), T("a"), T("))")>>),
     L(0, <<T("(("), SPACE, T("))")>>),
     L(0, <<T("[["), T("p"), T("]]")>>),
     L(0, <<T("(("), T("a"), SPACE, T("[["), T("p"), T("]]"), T("))")>>),
     L(0, <<T("{{"), T("img"), T("|"), T("[["), T("p"), T("]]"), T("}}")>>),
     tokenTextLine}
    \cup {nowikiLine(c) : c \in LiteralContents}
    \cup {percentLine(<<T("[["), T("p"), T("]]")>>)}

InlineDocs == DocsOver(InlineLines, MaxLines)

\* table rows, and a line that ends a table
TableLines ==
    {L(0, <<T("|"), T("a"), T("|")>>),
     L(0, <<T("|"), T("a"), T("|"), T("b"), T("|")>>),
     L(0, <<T("|"), T("a"), T("|"), T("b")>>),
     L(0, <<T("|"), T("a"), T("|"), T("|"), T("b"), T("|")>>),
     L(0, <<T("^"), T("a"), T("^"), T("b"), T("^")>>),
     L(0, <<T("|"), COLON, COLON, COLON, T("|"), T("b"), T("|")>>),
     L(0, <<T("a")>>)}

TableDocs == DocsOver(TableLines, MaxLines)

\* lines whose rendering reads or writes the fields of the instance
ConcLines ==
    {L(0, <<T("a")>>),
     L(0, <<T("(("), T("a"), T("))")>>),
     L(0, <<T("(("), T("b"), T("))")>>),
     L(0, <<T("[["), T("p"), T("]]")>>),
     L(2, <<T("*"), SPACE, T("a")>>)}

ConcDocs == DocsOver(ConcLines, MaxConcLines)

\* the two lines of the nested list example, at the indentation indent and
\* two spaces deeper
boldItem(indent) ==
    L(indent, <<T("*"), SPACE, T("Bold"), SPACE, T("**"), T("text"), T("**")>>)

italicItem(indent) ==
    L(indent, <<T("*"), SPACE, T("Italic"), SPACE, T("//"), T("text"), T("//")>>)

\* the line **bold** [[page]]
boldLinkLine == L(0, <<T("**"), T("bold"), T("**"), SPACE, T("[["), T("page"), T("]]")>>)

\* lines of plain text
PlainLines ==
    {L(0, <<T("a")>>),
     L(0, <<T("b"), SPACE, T("a")>>),
     L(0, <<T("10x20")>>)}

\* plain text, the examples of the documentation, typography and literal
\* spans inside and outside footnotes
TextLines ==
    PlainLines
    \cup {boldLinkLine, boldItem(0), italicItem(2), boldItem(2), italicItem(4),
          nowikiLine(<<T("a")>>),
          nowikiLine(<<T("b")>>),
          L(0, <<T("a"), SPACE, T("->"), SPACE, T("b")>>),
          L(0, <<T("(("), T("a"), SPACE, T("->"), SPACE, T("b"), T("))")>>),
          L(0, <<T("(("), T("<nowiki>"), T("<"), T("</nowiki>"), T("))")>>)}

TextDocs == DocsOver(TextLines, MaxLines)

\* lines that open, continue and end the blocks: blank, paragraph, indented
\* text, rows with and without indentation, quotes of two levels, a fence
\* and a list item
ModeLines ==
    {L(0, <<>>),
     L(0, <<T("a")>>),
     L(2, <<T("a")>>),
     L(2, <<T("b")>>),
     L(0, <<T("|"), T("a"), T("|")>>),
     L(2, <<T("|"), T("a"), T("|")>>),
     L(0, <<T(">"), SPACE, T("a")>>),
     L(0, <<T(">"), T(">"), SPACE, T("b")>>),
     L(0, <<T("<code>")>>),
     L(2, <<T("*"), SPACE, T("a")>>)}

ModeDocs == DocsOver(ModeLines, MaxLines)

\* the text http://name; the pattern of the autolink needs a name of two
\* characters or more
urlText(name) == <<T("http:"), T("//"), T(name)>>

\* lines with bare URLs, an image, a bracketed link and italic text
UrlLines ==
    {L(0, urlText("text")),
     L(0, urlText("text") \o <<SPACE>> \o urlText("img")),
     L(0, urlText("10x20")),
     L(0, <<T("{{"), T("10x20"), T("}}")>>),
     L(0, <<T("[["), T("10x20"), T("]]")>>),
     L(0, <<T("//"), T("a"), T("//")>>),
     L(0, <<T("a")>>)}

UrlDocs == DocsOver(UrlLines, MaxLines)

\* the header line: a run of n '=', the text, a run of m '='
hdr(n, text, m) == L(0, <<N("=", n), SPACE>> \o text \o <<SPACE, N("=", m)>>)

\* header lines of every level, with runs of different lengths and with '='
\* in the text
HeaderLines ==
    {hdr(n, <<T("a")>>, n) : n \in 2..6}
    \cup {hdr(3, <<T("a")>>, 2),
          hdr(2, <<T("a"), N("=", 1), T("b"), N("=", 1), T("text")>>, 2)}

\* the image {{img}} with or without a space before and after the source
imageText(leading, trailing) ==
    <<T("{{")>> \o (IF leading THEN <<SPACE>> ELSE <<>>) \o <<T("img")>>
    \o (IF trailing THEN <<SPACE>> ELSE <<>>) \o <<T("}}")>>

\* the four combinations, each after a word of a paragraph
ImageLines ==
    {L(0, <<T("a"), SPACE>> \o imageText(l, t)) : l, t \in BOOLEAN}

\* the line [[p|{{img}}]]: an image as the display text of a link
imageLinkLine ==
    L(0, <<T("[["), T("p"), T("|"), T("{{"), T("img"), T("}}"), T("]]")>>)

\* embedded HTML with bold markup in it, embedded PHP on one line, and the
\* two lines of embedded PHP that is closed on the line after
htmlLine ==
    L(0, <<T("<html>"), T("<b>"), T("**"), T("a"), T("**"), T("</b>"), T("</html>")>>)

phpLine == L(0, <<T("<php>"), T("<b>"), T("</php>")>>)

phpOpenLine == L(0, <<T("<php>"), T("<b>")>>)

phpCloseLine == L(0, <<T("</php>")>>)

EmbedLines == {htmlLine, phpLine, phpOpenLine, phpCloseLine}

\* paragraph lines with the sequence \\ in the middle and at the end
BreakLines ==
    {L(0, <<T("a"), T("\\\\"), SPACE, T("b")>>),
     L(0, <<T("a"), T("\\\\")>>)}

\* lines of inline and block markup, one or two to a document
MarkupLines ==
    HeaderLines \cup ImageLines \cup EmbedLines \cup BreakLines
    \cup {imageLinkLine, L(0, <<T("a")>>)}

MarkupDocs == DocsOver(MarkupLines, MaxMarkupLines)

\* the targets of resolveNamespace: at most MaxTargetLen tokens
TargetTokens == {COLON, DOT, T("page"), T("parent"), T("sibling"), T("ns3")}

Targets == UNION {[1..k -> TargetTokens] : k \in 0..MaxTargetLen}

-----------------------------------------------------------------------------
(* Actions *)

\* parser.parse(doku) is called for the first time: lines 1770-1793
ParseStart(c, docs) ==
    /\ call[c].pc = "idle"
    /\ \E doku \in docs :
           /\ this' = resetInstance(this)
           /\ call' = [call EXCEPT ![c] = newLocals(doku)]
    /\ calls' = calls + 1
    /\ UNCHANGED <<rnTarget, rnResolved, rnPc>>

\* parser.parse(doku) is called again on the same instance, after an earlier
\* call has returned or thrown
ParseAgain(c, docs) ==
    /\ call[c].pc \in {"done", "threw"}
    /\ calls < MaxCalls
    /\ \E doku \in docs :
           /\ this' = resetInstance(this)
           /\ call' = [call EXCEPT ![c] = newLocals(doku)]
    /\ calls' = calls + 1
    /\ UNCHANGED <<rnTarget, rnResolved, rnPc>>

\* one iteration of the loop over the lines: lines 1795-2152
ParseLine(c) ==
    /\ call[c].pc = "loop"
    /\ call[c].i < Len(call[c].lines)
    /\ \E s \in {loopStep(this @@ call[c])} :
           /\ this' = instOf(s)
           /\ call' = [call EXCEPT ![c] = localsOf(s)]
    /\ UNCHANGED <<calls, rnTarget, rnResolved, rnPc>>

\* the end of parse, after the loop: lines 2154-2184
ParseReturn(c) ==
    /\ call[c].pc = "loop"
    /\ call[c].i = Len(call[c].lines)
    /\ \E s \in {parseEnd(this @@ call[c])} :
           /\ this' = instOf(s)
           /\ call' = [call EXCEPT ![c] = localsOf(s)]
    /\ UNCHANGED <<calls, rnTarget, rnResolved, rnPc>>

\* new DokuParserJS({ currentNamespace })
InitParser ==
    /\ this \in {constructed(ns) : ns \in {<<>>, Ns12}}
    /\ call = [c \in Calls |-> idleLocals]
    /\ calls = 0
    /\ rnTarget = <<>>
    /\ rnResolved = <<>>
    /\ rnPc = "idle"

Init == InitParser

\* one call of parse() on a document of block lines
Next ==
    \/ ParseStart(1, BlockDocs)
    \/ ParseLine(1)
    \/ ParseReturn(1)

Spec == Init /\ [][Next]_vars

\* a call that has started is not suspended: parse() is synchronous, its next
\* iteration and its return are taken when they can be
SpecLive == Spec /\ WF_vars(ParseLine(1)) /\ WF_vars(ParseReturn(1))

\* calls of parse() one after the other on the same instance
NextRepeat ==
    \/ ParseStart(1, RepeatDocs)
    \/ ParseAgain(1, RepeatDocs)
    \/ ParseLine(1)
    \/ ParseReturn(1)

SpecRepeat == Init /\ [][NextRepeat]_vars

\* parser.resolveNamespace(target, parser.currentNamespace)
Resolve ==
    /\ rnPc = "idle"
    /\ \E target \in Targets :
           /\ rnTarget' = target
           /\ rnResolved' = resolveNamespace(target, this.currentNamespace)
    /\ rnPc' = "done"
    /\ UNCHANGED <<this, call, calls>>

InitResolve ==
    /\ this \in {constructed(ns) : ns \in Namespaces}
    /\ call = [c \in Calls |-> idleLocals]
    /\ calls = 0
    /\ rnTarget = <<>>
    /\ rnResolved = <<>>
    /\ rnPc = "idle"

NextResolve == Resolve

SpecResolve == InitResolve /\ [][NextResolve]_vars

\* one call of parse() on a document of paragraph lines
NextInline ==
    \/ ParseStart(1, InlineDocs)
    \/ ParseLine(1)
    \/ ParseReturn(1)

SpecInline == Init /\ [][NextInline]_vars

\* one call of parse() on a document of table rows
NextTable ==
    \/ ParseStart(1, TableDocs)
    \/ ParseLine(1)
    \/ ParseReturn(1)

SpecTable == Init /\ [][NextTable]_vars

\* one call of parse() on a document of text lines
NextText ==
    \/ ParseStart(1, TextDocs)
    \/ ParseLine(1)
    \/ ParseReturn(1)

SpecText == Init /\ [][NextText]_vars

\* one call of parse() on a document of lines of every block
NextMode ==
    \/ ParseStart(1, ModeDocs)
    \/ ParseLine(1)
    \/ ParseReturn(1)

SpecMode == Init /\ [][NextMode]_vars

\* one call of parse() on a document of lines with URLs
NextUrl ==
    \/ ParseStart(1, UrlDocs)
    \/ ParseLine(1)
    \/ ParseReturn(1)

SpecUrl == Init /\ [][NextUrl]_vars

\* new DokuParserJS({ htmlok })
InitMarkup ==
    /\ this \in {[constructed(<<>>) EXCEPT !.htmlok = h] : h \in BOOLEAN}
    /\ call = [c \in Calls |-> idleLocals]
    /\ calls = 0
    /\ rnTarget = <<>>
    /\ rnResolved = <<>>
    /\ rnPc = "idle"

\* one call of parse() on a short document of markup lines
NextMarkup ==
    \/ ParseStart(1, MarkupDocs)
    \/ ParseLine(1)
    \/ ParseReturn(1)

SpecMarkup == InitMarkup /\ [][NextMarkup]_vars

\* two calls of parse() on the same instance whose steps interleave, line by
\* line; both calls work on the fields of the one instance
NextConc ==
    \E c \in Calls :
        \/ ParseStart(c, ConcDocs)
        \/ ParseLine(c)
        \/ ParseReturn(c)

SpecConc == Init /\ [][NextConc]_vars

-----------------------------------------------------------------------------
(* Claims *)

\* C1: parse() returns an HTML string and never raises, whatever the markup;
\* in particular not for a <code> or <file> block that is still open at the
\* end of the input or that meets a new fence line.
C1_NeverRaises == \A c \in Calls : call[c].pc # "threw"

\* C3: parse(m) on an instance that has parsed before returns what parse(m)
\* returns on a parser that has just been constructed with the same options
\* (and raises exactly when that one raises).
C3_SameAsFresh ==
    \A c \in Calls :
        call[c].pc \in {"done", "threw"} =>
            \A fresh \in {parseFresh(call[c].lines, this.currentNamespace)} :
                /\ fresh.pc = call[c].pc
                /\ fresh.returned = call[c].returned

\* C3 witness: a second call on the same instance has returned a document
\* with a footnote and a link
C3_Witness ==
    /\ calls = 2
    /\ call[1].pc = "done"
    /\ Len(this.footnoteContent) > 0
    /\ Len(this.linkPlaceholders) > 0

\* the list tags of s that are still open, bottom first; <<"mismatch">> when
\* a closing tag does not close the innermost open list
RECURSIVE openLists(_, _)
openLists(s, open) ==
    IF s = <<>> THEN open
    ELSE IF Kind(Head(s)) \in {"<ul>", "<ol>"}
         THEN openLists(Tail(s), Append(open, IF Kind(Head(s)) = "<ul>" THEN "ul" ELSE "ol"))
    ELSE IF Kind(Head(s)) \in {"</ul>", "</ol>"}
         THEN IF open # <<>> /\ Last(open) = (IF Kind(Head(s)) = "</ul>" THEN "ul" ELSE "ol")
              THEN openLists(Tail(s), Front(open))
              ELSE <<"mismatch">>
    ELSE openLists(Tail(s), open)

\* C5: at every point of parse() the list closing tags emitted so far are as
\* many as the opening tags minus the depth of the list stack, and every
\* closing tag is of the kind of the entry that was popped: the list tags
\* still open in the output are the entries of the list stack, in order.
C5_ListTagsMatchStack ==
    \A c \in Calls :
        call[c].pc \in {"loop", "threw"} =>
            /\ openLists(Concat(call[c].result), <<>>)
                   = [k \in 1..Len(this.listStack) |-> this.listStack[k].type]
            /\ CountKinds(Concat(call[c].result), {"</ul>", "</ol>"})
                   = CountKinds(Concat(call[c].result), {"<ul>", "<ol>"})
                     - Len(this.listStack)

\* C5 witness: a list is open after another list has been closed
C5_Witness ==
    /\ call[1].pc = "loop"
    /\ Len(this.listStack) >= 1
    /\ CountKinds(Concat(call[1].result), {"</ul>", "</ol>"}) >= 1

-----------------------------------------------------------------------------
(* C9: resolveNamespace *)

\* the segments of a namespace and their text
segments(ns) == SelectSeq(ns, LAMBDA t : t # COLON)

RECURSIVE joinSegments(_)
joinSegments(segs) ==
    IF segs = <<>> THEN <<>>
    ELSE IF Len(segs) = 1 THEN segs
    ELSE <<Head(segs), COLON>> \o joinSegments(Tail(segs))

\* a page path: names separated by single colons, or nothing
isPath(r) ==
    /\ r # <<>> => Len(r) % 2 = 1
    /\ \A k \in 1..Len(r) :
           IF k % 2 = 1 THEN r[k] \notin {COLON, DOT} ELSE r[k] = COLON

\* the namespace segs followed by the path rest
under(segs, rest) ==
    IF rest = <<>> THEN joinSegments(segs)
    ELSE IF segs = <<>> THEN rest
    ELSE joinSegments(segs) \o <<COLON>> \o rest

\* segs without its last k segments
withoutLast(segs, k) ==
    IF k >= Len(segs) THEN <<>> ELSE SubSeq(segs, 1, Len(segs) - k)

\* the prefixes made of k times ".." or "..:"
RECURSIVE upPrefixes(_)
upPrefixes(k) ==
    IF k = 0 THEN {<<>>}
    ELSE {u \o p : u \in {<<DOT, DOT>>, <<DOT, DOT, COLON>>}, p \in upPrefixes(k - 1)}

\* C9: with the current namespace ns1:ns2, resolveNamespace returns ns3:page
\* for :ns3:page, ns1:parent for ..:parent, ns1:ns2:sibling for .:sibling and
\* ns1:ns2:start for ":"; in general, for a target made of a prefix and a
\* page path, a leading ":" discards the current namespace, k leading ".."
\* remove its last k segments, a leading "." keeps it, and a trailing ":"
\* appends ":start".
C9_Resolve ==
    rnPc = "done" =>
        LET ns == this.currentNamespace
            segs == segments(ns)
            trailing == rnTarget # <<>> /\ Last(rnTarget) = COLON
            body == IF trailing THEN Front(rnTarget) ELSE rnTarget
            suffix == IF trailing THEN <<COLON, T("start")>> ELSE <<>>
            rests == {SubSeq(body, j, Len(body)) : j \in 1..Len(body) + 1}
        IN  /\ ns = Ns12 =>
                /\ rnTarget = <<COLON, T("ns3"), COLON, T("page")>>
                       => rnResolved = <<T("ns3"), COLON, T("page")>>
                /\ rnTarget = <<DOT, DOT, COLON, T("parent")>>
                       => rnResolved = <<T("ns1"), COLON, T("parent")>>
                /\ rnTarget = <<DOT, COLON, T("sibling")>>
                       => rnResolved = <<T("ns1"), COLON, T("ns2"), COLON, T("sibling")>>
                /\ rnTarget = <<COLON>>
                       => rnResolved = <<T("ns1"), COLON, T("ns2"), COLON, T("start")>>
            /\ \A rest \in rests :
                   isPath(rest) =>
                       /\ body = <<COLON>> \o rest => rnResolved = rest \o suffix
                       /\ \A k \in 1..(Len(body) \div 2) :
                              \A p \in upPrefixes(k) :
                                  body = p \o rest
                                      => rnResolved = under(withoutLast(segs, k), rest) \o suffix
                       /\ \A p \in {<<DOT>>, <<DOT, COLON>>} :
                              body = p \o rest => rnResolved = under(segs, rest) \o suffix

\* C9 witness: ..:parent has been resolved under ns1:ns2
C9_Witness ==
    /\ rnPc = "done"
    /\ this.currentNamespace = Ns12
    /\ rnTarget = <<DOT, DOT, COLON, T("parent")>>
    /\ rnResolved = <<T("ns1"), COLON, T("parent")>>

-----------------------------------------------------------------------------
(* C2, C6, C7, C10: placeholders and footnotes *)

PlaceholderKinds == {"LINK", "NOWIKI", "PERCENT"}

\* no line of the document holds text shaped like a placeholder token
noTokenText(lines) ==
    \A k \in 1..Len(lines) : CountKinds(lines[k].toks, PlaceholderKinds) = 0

\* C2: when parse() returns, the output holds no placeholder token that a
\* rule emitted during the parse.  For a document that itself holds no text
\* shaped like a token, every token in the output is an emitted one.
C2_NoPlaceholderSurvives ==
    \A c \in Calls :
        (call[c].pc = "done" /\ noTokenText(call[c].lines)) =>
            CountKinds(call[c].returned, PlaceholderKinds) = 0

\* the distinct notes of a log of citations, in the order they were first met
RECURSIVE distinctNotes(_)
distinctNotes(log) ==
    IF log = <<>> THEN <<>>
    ELSE LET d == distinctNotes(Front(log))
         IN  IF \E k \in 1..Len(d) : d[k] = Last(log)[1] THEN d
             ELSE Append(d, Last(log)[1])

C7_DistinctMarkers ==
    \A c \in Calls :
        call[c].pc = "done" =>
            \A p, q \in 1..Len(call[c].returned) :
                (p < q /\ Kind(call[c].returned[p]) = "fnref"
                       /\ Kind(call[c].returned[q]) = "fnref")
                    => call[c].returned[p] # call[c].returned[q]

\* C10: a document that is the one line <nowiki>c</nowiki> or %%c%% renders
\* as the paragraph of c with its metacharacters escaped, registers no
\* footnote and allocates no link placeholder.
C10_LiteralRoundTrip ==
    \A c \in Calls :
        call[c].pc = "done" =>
            \A content \in LiteralContents :
                call[c].lines \in {<<nowikiLine(content)>>, <<percentLine(content)>>} =>
                    /\ call[c].returned
                           = <<T("<p>")>> \o escapeEntities(content) \o <<T("</p>")>>
                    /\ this.footnoteContent = <<>>
                    /\ this.linkPlaceholders = <<>>

-----------------------------------------------------------------------------
(* C4: interleaved calls *)

-----------------------------------------------------------------------------
(* C8: tables *)

\* the sum of (colspan - 1) over the colspan attributes of s
RECURSIVE extraColumns(_)
extraColumns(s) ==
    IF s = <<>> THEN 0
    ELSE (IF Kind(Head(s)) = " colspan=" THEN Head(s)[2] - 1 ELSE 0)
         + extraColumns(Tail(s))

\* the total of the colspans of the cells of a rendered row
spanTotal(row) == CountKinds(row, {"<td", "<th"}) + extraColumns(row)

\* the rendered rows of a pushed table
rowsOf(table) ==
    LET rows == Split(SubSeq(table, 2, Len(table) - 1), T("</tr>"))
    IN  {rows[k] : k \in {j \in 1..Len(rows) : rows[j] # <<>>}}

\* C8: in every rendered table every row has the same total of colspans.
C8_RowsSpanEqual ==
    \A c \in Calls :
        call[c].pc = "done" =>
            \A k \in 1..Len(call[c].result) :
                Head(call[c].result[k]) = T("<table class=inline>") =>
                    \A r1, r2 \in rowsOf(call[c].result[k]) :
                        spanTotal(r1) = spanTotal(r2)

-----------------------------------------------------------------------------
(* C11: escaping *)

\* the entity references that a typography rule writes
EntityKinds == {"&rarr;", "10&times;20"}

\* C11: when parse() returns, no text of the output has been rewritten by
\* escapeEntities more than once, and no entity reference written by a
\* typography rule has been rewritten by it at all; this includes the text
\* of a footnote, which is escaped when the footnote section is rendered.
C11_EscapedOnce ==
    \A c \in Calls :
        call[c].pc = "done" =>
            \A k \in 1..Len(call[c].returned) :
                /\ call[c].returned[k][3] <= 1
                /\ Kind(call[c].returned[k]) \in EntityKinds => call[c].returned[k][3] = 0

-----------------------------------------------------------------------------
(* C12: plain text *)

\* the kinds of token of plain text: words, numbers and single spaces
PlainKinds == {"a", "b", " ", "10x20"}

\* a document of plain-text lines: no blank line, no leading indentation,
\* no markup
isPlainText(lines) ==
    \A k \in 1..Len(lines) :
        /\ lines[k].indent = 0
        /\ lines[k].toks # <<>>
        /\ \A j \in 1..Len(lines[k].toks) : Kind(lines[k].toks[j]) \in PlainKinds

\* the text of the lines, as they are
textOf(lines) == [k \in 1..Len(lines) |-> lines[k].toks]

\* the text of the lines with WxH written W&times;H
substitutedTextOf(lines) ==
    [k \in 1..Len(lines) |-> ReplaceAll(lines[k].toks, T("10x20"), <<T("10&times;20")>>)]

\* C12 as it is stated: the output for plain-text lines is one paragraph
\* whose content is those lines joined by single spaces.
C12_OneParagraphVerbatim ==
    \A c \in Calls :
        (call[c].pc = "done" /\ isPlainText(call[c].lines)) =>
            call[c].returned
                = <<T("<p>")>> \o Join(textOf(call[c].lines), SPACE) \o <<T("</p>")>>

\* C12: the output for plain-text lines is one paragraph whose content is
\* those lines, each after the typography substitution, joined by single
\* spaces, whatever the number of lines.
C12_OneParagraph ==
    \A c \in Calls :
        (call[c].pc = "done" /\ isPlainText(call[c].lines)) =>
            call[c].returned
                = <<T("<p>")>> \o Join(substitutedTextOf(call[c].lines), SPACE)
                  \o <<T("</p>")>>

\* C12 witness: three plain-text lines, one of them with a substitution,
\* have been returned as one paragraph
C12_Witness ==
    /\ call[1].pc = "done"
    /\ Len(call[1].lines) = 3
    /\ isPlainText(call[1].lines)
    /\ call[1].lines[2] = L(0, <<T("10x20")>>)
    /\ Head(call[1].returned) = T("<p>")

-----------------------------------------------------------------------------
(* C13: the nested list example *)

\* the positions of s that hold a token of one of the kinds
positionsOf(s, kinds) == {k \in 1..Len(s) : Kind(s[k]) \in kinds}

\* s is one unordered list with two levels: a list is opened, its item
\* starts, a second list is opened inside that item and holds the second
\* item, and both lists are closed after it
nestedTwoLevels(s) ==
    LET opens == positionsOf(s, {"<ul>"})
        closes == positionsOf(s, {"</ul>"})
        items == positionsOf(s, {"<li class=level"})
    IN  /\ positionsOf(s, {"<ol>", "</ol>", "<p>"}) = {}
        /\ Cardinality(opens) = 2 /\ Cardinality(closes) = 2 /\ Cardinality(items) = 2
        /\ \E o1, o2 \in opens : \E i1, i2 \in items : \A c \in closes :
               o1 < i1 /\ i1 < o2 /\ o2 < i2 /\ i2 < c

-----------------------------------------------------------------------------
(* C14: bold text and a link in one paragraph *)

\* the href of the page "page" under the namespaces of the model
hrefOfPage(ns) ==
    IF ns = <<>> THEN <<T("page")>>
    ELSE <<T("ns1"), T("/"), T("ns2"), T("/"), T("page")>>

\* C14: the input **bold** [[page]] is returned as one paragraph that holds
\* the bold span and, after it, one internal link anchor whose href is the
\* resolved path of the page (/page with the default configuration); no
\* placeholder is left and the anchor is as the link rule built it.
C14_BoldAndLink ==
    \A c \in Calls :
        (call[c].pc = "done" /\ call[c].lines = <<boldLinkLine>>) =>
            call[c].returned
                = <<T("<p>"), T("<strong>"), T("bold"), T("</strong>"), SPACE,
                    T("<a href=/")>>
                  \o hrefOfPage(this.currentNamespace)
                  \o <<T(" class=wikilink1"), T(" data-wiki-id="), T("page"), T(">"),
                       T("page"), T("</a>"), T("</p>")>>

\* C14 witness: the input has been returned by a parser with the default
\* configuration, with its anchor
C14_Witness ==
    /\ call[1].pc = "done"
    /\ call[1].lines = <<boldLinkLine>>
    /\ this.currentNamespace = <<>>
    /\ CountKinds(call[1].returned, {"<a href=/"}) = 1

-----------------------------------------------------------------------------
(* C15: the flush at the end of the input *)

\* every buffer of the call has been emitted: the paragraph, table and code
\* block buffers are empty, an open preformatted block has been pushed, the
\* list stack is empty and no quote level is open
allFlushed(c) ==
    /\ call[c].paragraphBuffer = <<>>
    /\ call[c].tableBuffer = <<>>
    /\ call[c].codeBlockBuffer = <<>>
    /\ call[c].inPre =>
           \E k \in 1..Len(call[c].result) :
               call[c].result[k] = preBlockHtml(call[c].preBuffer)
    /\ this.listStack = <<>>
    /\ call[c].quoteLevel = 0

\* C15: every call of parse() ends by returning, with every buffer emitted,
\* whatever block was in progress on the last line, a code block that was
\* never closed included.
C15_FinalFlush ==
    \A c \in Calls :
        call[c].pc \in {"done", "threw"} =>
            /\ call[c].pc = "done"
            /\ allFlushed(c)

-----------------------------------------------------------------------------
(* C16: the footnote section *)

\* the indices of the pushed items that start with a token of the kind
itemsOf(result, kind) ==
    {k \in 1..Len(result) : result[k] # <<>> /\ Kind(Head(result[k])) = kind}

-----------------------------------------------------------------------------
(* C17: the top-level container *)

\* the kinds of generated token that open one element, and that close one
OpenOneKinds == {"<p>", "<ul>", "<ol>", "<li class=level", "<div class=li>",
                 "<table class=inline>", "<tr class=row0>", "<th", "<td", "<h",
                 "<pre class=code>", "<pre class=file>", "<div class=footnotes>",
                 "<strong>", "<em>", "<a href=/", "<a href="}

CloseOneKinds == {"</p>", "</ul>", "</ol>", "</li>", "</div>", "</table>", "</tr>",
                  "</th>", "</td>", "</h", "</pre>", "</strong>", "</em>", "</a>"}

\* the kinds of generated token that open two elements, and that close two
OpenTwoKinds == {"<blockquote><div class=no>", "fndef"}

CloseTwoKinds == {"</div></blockquote>", "</div></div>"}

\* the number of elements a token opens, less the number it closes; a token
\* that escapeEntities has rewritten is text
tagWeight(tok) ==
    IF tok[3] > 0 THEN 0
    ELSE IF Kind(tok) \in OpenOneKinds THEN 1
    ELSE IF Kind(tok) \in OpenTwoKinds THEN 2
    ELSE IF Kind(tok) \in CloseOneKinds THEN -1
    ELSE IF Kind(tok) \in CloseTwoKinds THEN -2
    ELSE 0

\* the number of elements that are open after the first k tokens of s
RECURSIVE depthAfter(_, _)
depthAfter(s, k) == IF k = 0 THEN 0 ELSE depthAfter(s, k - 1) + tagWeight(s[k])

\* C17: the text that parse() returns is one element: it starts with an
\* opening tag, and the element that tag opens is closed by the last token
\* and not before, so that every block of the output is inside it.
C17_OneContainer ==
    \A c \in Calls :
        (call[c].pc = "done" /\ call[c].returned # <<>>) =>
            /\ \A k \in 1..(Len(call[c].returned) - 1) :
                   depthAfter(call[c].returned, k) > 0
            /\ depthAfter(call[c].returned, Len(call[c].returned)) = 0

-----------------------------------------------------------------------------
(* C18: placeholder tokens *)

\* C18: within one call of parse() no two captured fragments are given the
\* same placeholder token: the tokens returned by the nowiki, percent and
\* link rules are pairwise distinct over the whole document.
C18_UniqueTokens ==
    \A c \in Calls :
        call[c].pc \in {"loop", "done"} =>
            \A i, j \in 1..Len(call[c].issued) :
                i < j => call[c].issued[i][1] # call[c].issued[j][1]

-----------------------------------------------------------------------------
(* C19: the list stack *)

\* C19: between the lines of parse() and at its end, the depths stored in
\* the list stack strictly increase from the bottom of the stack to its top,
\* and currentIndent is the depth of the top entry, or -1 when the stack is
\* empty.
C19_DepthsIncrease ==
    /\ \A k \in 1..(Len(this.listStack) - 1) :
           this.listStack[k].indent < this.listStack[k + 1].indent
    /\ this.currentIndent = IF this.listStack = <<>> THEN -1
                            ELSE this.listStack[Len(this.listStack)].indent

\* C19 witness: two lists are open, the inner one deeper than the outer one
C19_Witness ==
    /\ call[1].pc = "loop"
    /\ Len(this.listStack) = 2
    /\ this.listStack[1].indent < this.listStack[2].indent
    /\ this.currentIndent = this.listStack[2].indent

-----------------------------------------------------------------------------
(* C20: the order of the output *)

\* what was buffered before a step is still buffered after it
keptBuffered(before, after) == before # <<>> /\ StartsWith(after, before)

\* C20: the output follows the order of the lines: when the step for a line
\* pushes output, nothing that an earlier line has put into the paragraph
\* buffer, the table buffer or the preformatted buffer is still waiting in
\* that buffer afterwards; the buffered block has been flushed first.
C20_LineOrder ==
    [][\A c \in Calls :
          (/\ call[c].pc = "loop"
           /\ call[c]'.pc = "loop"
           /\ call[c]'.i = call[c].i + 1
           /\ Len(call[c]'.result) > Len(call[c].result)) =>
              /\ ~keptBuffered(call[c].paragraphBuffer, call[c]'.paragraphBuffer)
              /\ ~keptBuffered(call[c].tableBuffer, call[c]'.tableBuffer)
              /\ ~keptBuffered(call[c].preBuffer, call[c]'.preBuffer)]_vars

-----------------------------------------------------------------------------
(* C21: the buffering modes *)

\* the buffering modes that hold at a line boundary of call c
modesOf(c) ==
    {m \in {"paragraph", "list", "quote", "table", "code", "pre"} :
        \/ m = "paragraph" /\ call[c].paragraphBuffer # <<>>
        \/ m = "list" /\ this.listStack # <<>>
        \/ m = "quote" /\ call[c].quoteLevel > 0
        \/ m = "table" /\ call[c].inTable /\ call[c].tableBuffer # <<>>
        \/ m = "code" /\ call[c].inCodeBlock
        \/ m = "pre" /\ call[c].inPre}

\* C21: at every line boundary at most one buffering mode holds (paragraph
\* buffer non-empty, list stack non-empty, quote level above 0, table open
\* with buffered rows, code/file block open, preformatted block open), and
\* inTable is true only while the table buffer is non-empty.  A line boundary
\* is a state of the loop with a line still to come.
C21_ModesExclusive ==
    (call[1].pc = "loop" /\ call[1].i < Len(call[1].lines)) =>
        /\ Cardinality(modesOf(1)) <= 1
        /\ call[1].inTable => call[1].tableBuffer # <<>>

-----------------------------------------------------------------------------
(* C22: blank lines *)

\* the step of call c processes a blank line
blankStep(c) ==
    /\ call[c].pc = "loop"
    /\ call[c]'.i = call[c].i + 1
    /\ IsBlank(call[c].lines[call[c].i + 1].toks)

\* C22: a blank line outside a verbatim block flushes everything: after it the
\* paragraph buffer and the table buffer are empty, the list stack is empty,
\* inTable is false and the quote level is 0, whatever was open before it.  A
\* blank line inside an open code/file block or preformatted block pushes
\* nothing and becomes one more line of that block.
C22_BlankLine ==
    [][blankStep(1) =>
          /\ call[1]'.pc = "loop"
          /\ IF call[1].inCodeBlock
             THEN /\ call[1]'.result = call[1].result
                  /\ call[1]'.codeBlockBuffer = Append(call[1].codeBlockBuffer, <<>>)
             ELSE IF call[1].inPre
             THEN /\ call[1]'.result = call[1].result
                  /\ Len(call[1]'.preBuffer) = Len(call[1].preBuffer) + 1
             ELSE /\ call[1]'.paragraphBuffer = <<>>
                  /\ call[1]'.tableBuffer = <<>>
                  /\ this'.listStack = <<>>
                  /\ ~call[1]'.inTable
                  /\ call[1]'.quoteLevel = 0]_vars

-----------------------------------------------------------------------------
(* C23: the order of a flush *)

\* the closing tags of the open lists, innermost first
RECURSIVE listClosings(_)
listClosings(stack) ==
    IF stack = <<>> THEN <<>>
    ELSE <<<<listClose(Last(stack).type)>>>> \o listClosings(Front(stack))

\* what a flush is to push for the buffers of st, in the order lists, table,
\* quote closings, paragraph, code block
flushOutput(st) ==
    listClosings(st.listStack)
    \o (IF st.tableBuffer = <<>> THEN <<>>
        ELSE <<<<T("<table class=inline>")>> \o Concat(st.tableBuffer)
               \o <<T("</table>")>>>>)
    \o [j \in 1..st.quoteLevel |-> <<T("</div></blockquote>")>>]
    \o (IF IsBlank(Join(st.paragraphBuffer, SPACE)) THEN <<>>
        ELSE <<<<T("<p>")>> \o Join(st.paragraphBuffer, SPACE) \o <<T("</p>")>>>>)
    \o (IF st.codeBlockBuffer = <<>> THEN <<>>
        ELSE <<preHtml("<pre>", st.codeBlockBuffer)>>)

\* C23: flushBlocks called between two lines pushes the closing tags of the
\* open lists (innermost first), then the buffered table, then the closings of
\* the open quote levels, then the buffered paragraph, then the buffered code
\* block; and a second flushBlocks right after the first pushes nothing.
C23_FlushOrder ==
    call[1].pc = "loop" =>
        \A f \in {flushBlocks(this @@ call[1])} :
            /\ f.pc = "loop"
            /\ f.result = call[1].result \o flushOutput(this @@ call[1])
            /\ flushBlocks(f).result = f.result

-----------------------------------------------------------------------------
(* C24: the order of the inline rules *)

\* the text of all lines of a document, one after the other
allText(lines) == Concat([k \in 1..Len(lines) |-> lines[k].toks])

\* C24: the link rules, the URL autolink included, run before the italic
\* rule, so that the "//" of a URL is never taken as italic markup: every URL
\* of the markup is an anchor of the output.
C24_LinksBeforeFormatting ==
    call[1].pc = "done" =>
        CountKinds(call[1].returned, {"<a href="})
            = CountKinds(allText(call[1].lines), {"http:"})

-----------------------------------------------------------------------------
(* C25: generated HTML and the later rules *)

\* the tokens that open the href of an anchor or the src of an image
AttrKinds == {"<a href=/", "<a href=", "<img src=/media/"}

\* the attribute that starts at index k of s holds no token produced by the
\* typography rules
RECURSIVE attrUntouched(_, _)
attrUntouched(s, k) ==
    IF k > Len(s) \/ Kind(s[k]) \in {">", " class=wikilink1",
                                      " class=mediacenter loading=lazy>",
                                      " class=mediaright loading=lazy>",
                                      " class=medialeft loading=lazy>",
                                      " loading=lazy>"}
    THEN TRUE
    ELSE Kind(s[k]) \notin {"10&times;20", "&rarr;"} /\ attrUntouched(s, k + 1)

\* C25: HTML generated by an inline rule is not altered by a later rule: every
\* anchor of the output comes from the link placeholder table, and no href of
\* an anchor and no src of an image holds text that the typography rules have
\* rewritten.
C25_GeneratedHtmlKept ==
    call[1].pc = "done" =>
        /\ CountKinds(call[1].returned, {"<a href=/", "<a href="})
               = Len(this.linkPlaceholders)
        /\ \A k \in 1..Len(call[1].returned) :
               Kind(call[1].returned[k]) \in AttrKinds =>
                   attrUntouched(call[1].returned, k + 1)

-----------------------------------------------------------------------------
(* C26: blockquote wrappers *)

\* the blockquote wrappers opened and not yet closed in the pushed output
openQuotes(result) ==
    CountKinds(Concat(result), {"<blockquote><div class=no>"})
        - CountKinds(Concat(result), {"</div></blockquote>"})

\* C26: blockquote wrappers are balanced and follow the level: between two
\* lines exactly quoteLevel wrappers are open, and in the returned output as
\* many wrappers are closed as were opened.
C26_QuotesBalanced ==
    /\ (call[1].pc = "loop" /\ call[1].i < Len(call[1].lines)) =>
           openQuotes(call[1].result) = call[1].quoteLevel
    /\ call[1].pc = "done" => openQuotes(call[1].result) = 0

-----------------------------------------------------------------------------
(* C27: an item that goes back to the depth of an open list *)

\* the lines are three list items: the second is deeper than the first, the
\* third is at the depth and of the type of the first
dedentDoc(lines) ==
    /\ Len(lines) = 3
    /\ \A k \in 1..3 : isListItem(lines[k])
    /\ lines[2].indent > lines[1].indent
    /\ lines[3].indent = lines[1].indent
    /\ Head(lines[3].toks) = Head(lines[1].toks)

\* C27: an item at depth d that follows deeper items is added to the list of
\* depth d that was open before them: only the deeper lists are closed and no
\* list opening tag is emitted for it, so that the output of an item, a deeper
\* item and an item at the first depth again has two list openings.
C27_DedentKeepsList ==
    \A c \in Calls :
        (call[c].pc = "done" /\ dedentDoc(call[c].lines)) =>
            CountKinds(call[c].returned, {"<ul>", "<ol>"}) = 2

-----------------------------------------------------------------------------
(* C28: list item tags *)

\* every line of the document is a list item
itemsOnly(lines) == lines # <<>> /\ \A k \in 1..Len(lines) : isListItem(lines[k])

\* C28: list item tags are balanced: for a document of list items (siblings,
\* nested items, dedented items, items of alternating type) the returned
\* output has as many </li> closing tags as <li> opening tags.
C28_ItemsBalanced ==
    \A c \in Calls :
        (call[c].pc = "done" /\ itemsOnly(call[c].lines)) =>
            CountKinds(call[c].returned, {"<li class=level"})
                = CountKinds(call[c].returned, {"</li>"})

-----------------------------------------------------------------------------
(* C29: runs of indented lines *)

\* an indented line that is neither a list item nor a table row
isPreLine(line) ==
    /\ line.indent >= 2
    /\ ~IsBlank(line.toks)
    /\ ~looksLikeItem(line)
    /\ Kind(Head(line.toks)) \notin {"|", "^"}

\* the document is one run: indented lines, none indented less than the first
preRun(lines) ==
    /\ lines # <<>>
    /\ \A k \in 1..Len(lines) :
           isPreLine(lines[k]) /\ lines[k].indent >= lines[1].indent

\* C29: a run of consecutive indented lines without list marker forms one
\* preformatted block: the output of a document that is such a run is one
\* preformatted element that holds every line of the run, in input order.
C29_PreRun ==
    (call[1].pc = "done" /\ preRun(call[1].lines)) =>
        call[1].returned = preBlockHtml(call[1].lines)

-----------------------------------------------------------------------------
(* C30: the priority of the table pattern *)

\* the step of call c processes, outside a code block, a line whose first
\* non-space character is ^ or |
rowStep(c) ==
    /\ call[c].pc = "loop"
    /\ call[c]'.i = call[c].i + 1
    /\ ~call[c].inCodeBlock
    /\ startsRow(call[c].lines[call[c].i + 1].toks)

\* C30: outside code blocks a line whose first non-space character is ^ or |
\* is taken as a table row, whatever its indentation and whatever block is
\* open, a table or not: after its step a table is open, no preformatted block
\* is, and the row is in the table buffer unless the line was the last one and
\* the table has been emitted.
C30_RowPriority ==
    [][rowStep(1) =>
          /\ call[1]'.inTable
          /\ ~call[1]'.inPre
          /\ \/ call[1]'.tableBuffer # <<>>
             \/ call[1]'.i = Len(call[1].lines)]_vars

-----------------------------------------------------------------------------
(* C31: rowspan markers *)

\* the row | a | b |
plainRow == L(0, <<T("|"), T("a"), T("|"), T("b"), T("|")>>)

\* the row | ::: | b |
markerRow == L(0, <<T("|"), COLON, COLON, COLON, T("|"), T("b"), T("|")>>)

\* the document is the row | a | b | followed by rows | ::: | b | only
spannedDoc(lines) ==
    /\ Len(lines) >= 2
    /\ lines[1] = plainRow
    /\ \A k \in 2..Len(lines) : lines[k] = markerRow

\* C31: a cell that holds only ":::" adds no cell to its own row and adds one
\* to the rowspan of the cell above it: the cell a of the first row, spanned
\* by the markers of the k rows below it, is rendered with rowspan k + 1, the
\* marker rows render the cell b only, and no ":::" reaches the output.
C31_RowspanMarker ==
    (call[1].pc = "done" /\ spannedDoc(call[1].lines)) =>
        /\ Includes(call[1].returned, N(" rowspan=", Len(call[1].lines)))
        /\ CountKinds(call[1].returned, {"<td"}) = Len(call[1].lines) + 1
        /\ ~Includes(call[1].returned, COLON)

-----------------------------------------------------------------------------
(* C32: heading levels *)

\* the levels of the headings of s
levelsOf(s) == {s[k][2] : k \in positionsOf(s, {"<h"})}

\* the line starts and ends with runs of 2 to 6 '='
headerShaped(toks) ==
    /\ Len(toks) >= 2
    /\ Kind(Head(toks)) = "=" /\ Head(toks)[2] \in 2..6
    /\ Kind(Last(toks)) = "=" /\ Last(toks)[2] \in 2..6

\* C32: a header line whose two '=' runs both have length n, 2 <= n <= 6, is
\* emitted as a heading of level 7 - n, whatever its text holds; a line whose
\* two runs have different lengths is not a header; and every emitted level
\* is within 1..6.
C32_HeaderLevel ==
    (/\ call[1].pc = "done"
     /\ Len(call[1].lines) = 1
     /\ headerShaped(call[1].lines[1].toks)) =>
        /\ levelsOf(call[1].returned) \subseteq 1..6
        /\ IF Head(call[1].lines[1].toks)[2] = Last(call[1].lines[1].toks)[2]
           THEN levelsOf(call[1].returned) = {7 - Head(call[1].lines[1].toks)[2]}
           ELSE levelsOf(call[1].returned) = {}

-----------------------------------------------------------------------------
(* C33, C34: the clean-up of the resolved path *)

\* no leading colon, no trailing colon, no two adjacent colons
colonNormal(path) ==
    /\ path # <<>> => Head(path) # COLON /\ Last(path) # COLON
    /\ \A k \in 1..Len(path) - 1 : ~(path[k] = COLON /\ path[k + 1] = COLON)

\* C33: for every target and every current namespace the path returned by
\* resolveNamespace is in colon normal form: no leading colon, no trailing
\* colon and no two adjacent colons, also for a target that ends in ":" and
\* after the disallowed characters have been handled.
C33_ColonNormalForm == rnPc = "done" => colonNormal(rnResolved)


\* the number of tokens of the path other than colons
nonColons(path) == Len(path) - CountKinds(path, {":"})

\* C34: the clean-up replaces every disallowed character by a placeholder
\* character and deletes none: for a target that is used as it is (not
\* relative, no start page, empty current namespace) the returned path has
\* one token for every token of the target that is not a colon.
C34_NothingDeleted ==
    (/\ rnPc = "done"
     /\ this.currentNamespace = <<>>
     /\ rnTarget # <<>>
     /\ Head(rnTarget) \notin {DOT, COLON}
     /\ Last(rnTarget) # COLON) =>
        nonColons(rnResolved) = nonColons(rnTarget)

-----------------------------------------------------------------------------
(* C35: the alignment of an image *)

\* the kinds of the token that ends an <img> element
ImgEndKinds == {" class=mediacenter loading=lazy>", " class=mediaright loading=lazy>",
                " class=medialeft loading=lazy>", " loading=lazy>"}

\* C35: the image rule infers the alignment from the space around the source:
\* a space before it only gives right alignment, a space after it only gives
\* left alignment, a space on both sides and no space give centre alignment,
\* so that each of the four combinations yields an alignment class.
C35_ImageAlignment ==
    \A l, t \in BOOLEAN :
        (/\ call[1].pc = "done"
         /\ call[1].lines = <<L(0, <<T("a"), SPACE>> \o imageText(l, t))>>) =>
            /\ CountKinds(call[1].returned, ImgEndKinds) = 1
            /\ Includes(call[1].returned,
                        IF l /\ ~t THEN T(" class=mediaright loading=lazy>")
                        ELSE IF t /\ ~l THEN T(" class=medialeft loading=lazy>")
                        ELSE T(" class=mediacenter loading=lazy>"))

-----------------------------------------------------------------------------
(* C36: an image as the text of a link *)

\* between an anchor's opening at index k of s and its </a> there is an <img>
\* element and no raw image markup
RECURSIVE imageInside(_, _, _)
imageInside(s, k, seen) ==
    IF k > Len(s) \/ s[k] = T("</a>") THEN seen
    ELSE IF Kind(s[k]) \in {"{{", "}}"} THEN FALSE
    ELSE imageInside(s, k + 1, seen \/ Kind(s[k]) = "<img src=/media/")

\* C36: an image written as the display text of a bracketed link,
\* [[p|{{img}}]], is returned as an image element inside the anchor, and no
\* raw {{...}} markup is left in the display text of the anchor.
C36_ImageInLink ==
    (call[1].pc = "done" /\ call[1].lines = <<imageLinkLine>>) =>
        \E k \in positionsOf(call[1].returned, {"<a href=/"}) :
            imageInside(call[1].returned, k + 1, FALSE)

-----------------------------------------------------------------------------
(* C37: lines inside a code block *)

\* the step of call c processes a line inside an open code/file block that
\* is not a fence line
codeStep(c) ==
    /\ call[c].pc = "loop"
    /\ call[c].i < Len(call[c].lines)
    /\ call[c]' # call[c]
    /\ call[c].inCodeBlock
    /\ \A line \in {call[c].lines[call[c].i + 1]} :
           \/ line.toks = <<>>
           \/ /\ Head(line.toks) \notin {T("<code>"), T("<file>")}
              /\ Last(line.toks) \notin {T("</code>"), T("</file>")}

\* C37: a line inside an open code/file block that is not a fence line
\* changes the code-block buffer only, which gets the line as it was written:
\* the output so far, the fields of the instance (footnotes, placeholder
\* tables, list stack), the quote level and the paragraph and table buffers
\* are left as they were.
C37_CodeLineFrame ==
    [][codeStep(1) =>
          /\ call[1]'.pc = "loop"
          /\ call[1]'.codeBlockBuffer
                 = Append(call[1].codeBlockBuffer,
                          lineText(call[1].lines[call[1].i + 1]))
          /\ call[1]'.result = call[1].result
          /\ this' = this
          /\ call[1]'.quoteLevel = call[1].quoteLevel
          /\ call[1]'.paragraphBuffer = call[1].paragraphBuffer
          /\ call[1]'.tableBuffer = call[1].tableBuffer]_vars

-----------------------------------------------------------------------------
(* C38: embedded HTML and PHP *)

\* C38: embedded HTML is passed through as it was written, untouched by any
\* other inline rule, when HTML embedding is allowed, and is escaped when it
\* is not; embedded PHP is escaped whatever the flag; so that raw PHP, and raw
\* HTML with embedding disallowed, never reach the output unescaped.
C38_Embedding ==
    call[1].pc = "done" =>
        /\ (call[1].lines = <<htmlLine>> /\ this.htmlok) =>
               call[1].returned
                   = <<T("<p>")>>
                     \o SubSeq(htmlLine.toks, 2, Len(htmlLine.toks) - 1)
                     \o <<T("</p>")>>
        /\ (call[1].lines = <<htmlLine>> /\ ~this.htmlok) =>
               ~Includes(call[1].returned, T("<b>"))
        /\ call[1].lines \in {<<phpLine>>, <<phpOpenLine, phpCloseLine>>} =>
               ~Includes(call[1].returned, T("<b>"))

-----------------------------------------------------------------------------
(* C39: line breaks in a paragraph *)

\* C39: the lines of a paragraph are joined with single spaces, a line
\* boundary alone gives no line break, and every \\ sequence of the text, in
\* the middle of a line and at the end of a line, gives one hard break
\* element in the output.
C39_HardBreaks ==
    (/\ call[1].pc = "done"
     /\ \A k \in 1..Len(call[1].lines) :
            call[1].lines[k] \in BreakLines \cup {L(0, <<T("a")>>)}) =>
        /\ CountKinds(call[1].returned, {"<p>"}) = 1
        /\ CountKinds(call[1].returned, {"\n"}) = 0
        /\ CountKinds(call[1].returned, {"<br>"})
               = CountKinds(allText(call[1].lines), {"\\\\"})

-----------------------------------------------------------------------------
(* C40: termination *)

\* C40: parse() terminates on every input: the loop takes the lines one after
\* the other, and the call that has started ends by returning the complete
\* HTML string.
C40_Terminates == (call[1].pc = "loop") ~> (call[1].pc = "done")

=============================================================================
